---- MODULE Spec2Model ----
(***************************************************************************)
(* Model of the CYNIC scheduler (packages/scheduler): the phi-weighted     *)
(* priority queue (priority.rs) and the scheduler lifecycle (scheduler.rs).*)
(***************************************************************************)
EXTENDS Integers, Sequences, FiniteSets, TLC

\* ------------------------------------------------------------------ bounds
NumSigs == 3          \* distinct transaction signatures
MaxFee == 1           \* priority fees range over 1..MaxFee
MaxTime == 1          \* readings of the monotonic clock range over 0..MaxTime
MaxQueueSize == 2     \* max_size handed to PriorityQueue::new
MaxCount == 3         \* cap on the calls counted by the statistics counters
MaxReceived == 1      \* cap on tpu_received
MaxAdmitted == 1      \* cap on tpu_received where the lock guards are shown
MaxProcessed == 3     \* cap on tpu_received where one task calls
MaxInserted == 3      \* cap on the enqueue calls where the tasks call the queue
MaxConcurrent == 2    \* cap on tpu_received where the tasks admit at once
MaxUsize == 1         \* the usize fields of a configuration range over 0..MaxUsize
MaxSlot == 1          \* slots handed to update_progress range over 0..MaxSlot
MaxResults == 2       \* cap on results_received
MaxExcess == 1        \* a batch lookup names up to BATCH_LIMIT + MaxExcess subjects
MaxExtraKeys == 1     \* validator keys: MAX_VALIDATORS + MaxExtraKeys besides the default
MaxCooldowns == 2     \* the clock runs up to MaxCooldowns * UNSTAKE_COOLDOWN + MaxDrift
MaxDrift == 1         \* single slots the clock advances past a multiple of the cooldown
MaxStakes == 2        \* a stake account holds at most MaxStakes * MIN_VALIDATOR_STAKE
MaxSlashes == 2       \* slashes of one stake account before it is closed
MaxUpdates == 2       \* cap on update_count of the E-Score entry
NumAddresses == 1     \* distinct wallet addresses looked up
CacheTtl == 1         \* cache_ttl handed to CynicClient::new, in clock ticks

Sigs == 1..NumSigs
Fees == 1..MaxFee
Verdicts == {"Wag", "Howl", "Bark", "Growl"}

\* ------------------------------------------------------- lib.rs constants
\* The f64 multipliers, in thousandths: fee * multiplier is compared exactly
\* as the f64 products are for the small fees of the model.
PHI == 1618
PHI_INV == 618
ONE == 1000

\* cynic_client.rs:174, the cache length above which cache_score prunes
CACHE_PRUNE_LEN == 10000

\* cynic_client.rs:220, .take(100): the lookups a batch lookup starts
BATCH_LIMIT == 100

\* programs/cynic-anchor/src/lib.rs: the registry's capacity
MAX_VALIDATORS == 21

\* programs/cynic-anchor/src/lib.rs: staking and slashing
BURN_REASON_SLASHING == 4
MIN_VALIDATOR_STAKE == 144000000
SLASH_PERCENTAGE == 382
SLASH_SCALE == 1000
UNSTAKE_COOLDOWN == 233
ESCORE_MAX == 100000
ESCORE_MIN == 0 - 61800
ESCORE_UPDATE_COOLDOWN == 55
ESCORE_TYPE_FEEDBACK == 4

VARIABLES
    queue,          \* PriorityQueueInner.queue: signature -> TransactionPriority
    transactions,   \* PriorityQueueInner.transactions: signature -> QueuedTransaction
    stats,          \* PriorityQueueInner.stats: QueueStats
    now,            \* the last reading of the monotonic clock (Instant)
    config,         \* CynicScheduler.config, as far as admission reads it
    state,          \* CynicScheduler.state: SchedulerState
    running,        \* CynicScheduler.running: AtomicBool
    sched_stats,    \* CynicScheduler.stats: SchedulerStats without its queue part
    pc,             \* per task: where it stands in the scheduler call it makes
    local,          \* per task: the locals of that call
    cache,          \* CynicClient.cache: key -> CacheEntry
    guards,         \* per task: the lock guards it holds
    delivered,      \* per signature: the extraction calls that returned it since
                    \* it was last inserted
    progress,       \* CynicScheduler.current_slot and is_leader, the atomics
    anchor,         \* cynic-anchor: the accounts of the program and the clock
    call            \* the call the last step belongs to, with its result

queueVars == <<queue, transactions, stats, now>>
restVars == <<delivered, progress, anchor>>
schedVars ==
    <<config, state, running, sched_stats, pc, local, cache, guards, restVars>>
clientVars == <<cache, guards>>
vars ==
    <<queue, transactions, stats, now, config, state, running, sched_stats, pc, local,
      cache, guards, delivered, progress, anchor, call>>

max_size == MaxQueueSize

\* ----------------------------------------------------------------- lib.rs
multiplier_unweighted(v) == IF v = "Growl" THEN 0 ELSE ONE

\* Verdict::multiplier
multiplier(v) ==
    CASE v = "Wag" -> PHI
      [] v = "Howl" -> ONE
      [] v = "Bark" -> PHI_INV
      [] v = "Growl" -> 0

should_drop_never(v) == FALSE

\* Verdict::should_drop
should_drop(v) == v = "Growl"

\* ------------------------------------------------------------ priority.rs
\* Instant::now(): a reading of the monotonic clock after the reading c. It
\* is never less than c and may be equal to it.
InstantNow(c) == {c} \cup (IF c < MaxTime THEN {c + 1} ELSE {})

\* TransactionPriority::new
TransactionPriority_new(base_fee, verdict, t) ==
    [base_fee |-> base_fee, phi_score |-> base_fee * multiplier(verdict), timestamp |-> t]

cmp_lifo(self, other) ==
    IF self.phi_score > other.phi_score THEN "Greater"
    ELSE IF self.phi_score < other.phi_score THEN "Less"
    ELSE IF self.timestamp > other.timestamp THEN "Greater"
    ELSE IF self.timestamp < other.timestamp THEN "Less"
    ELSE "Equal"

\* impl Ord for TransactionPriority: the higher phi_score is Greater; on
\* equal scores the earlier timestamp is Greater.
cmp(self, other) ==
    IF self.phi_score > other.phi_score THEN "Greater"
    ELSE IF self.phi_score < other.phi_score THEN "Less"
    ELSE IF other.timestamp > self.timestamp THEN "Greater"
    ELSE IF other.timestamp < self.timestamp THEN "Less"
    ELSE "Equal"

le_strict(a, b) == cmp(a, b) = "Less"

\* priority <= *lowest (PartialOrd through cmp)
le(a, b) == cmp(a, b) \in {"Less", "Equal"}

\* QueuedTransaction, as far as the queue and the claims read it; reputation
\* is the verdict of the attached ReputationScore.
QueuedTransaction(sig, fee, verdict) ==
    [signature |-> sig, priority_fee |-> fee, reputation |-> verdict]

NoTx == [signature |-> 0, priority_fee |-> 0, reputation |-> "-"]

\* QueueStats::default
QueueStats_default ==
    [total_enqueued |-> 0, total_dequeued |-> 0, total_dropped |-> 0,
     total_boosted |-> 0, total_reduced |-> 0, current_size |-> 0]

\* priority_queue::PriorityQueue as the code uses it: len, peek, pop, push.
len(q) == Cardinality(DOMAIN q)

\* peek/pop address an item of the greatest priority; among items that
\* compare Equal the heap's layout picks one.
peek(q) == {s \in DOMAIN q : \A o \in DOMAIN q : cmp(q[s], q[o]) # "Less"}

\* what pop (or HashMap::remove) leaves
without(m, k) == [s \in DOMAIN m \ {k} |-> m[s]]

\* an insertion that leaves an existing key as it is
with_keeps_old(m, k, v) == IF k \in DOMAIN m THEN m ELSE (k :> v) @@ m

\* push (or HashMap::insert): an existing key gets the new value
with(m, k, v) == IF k \in DOMAIN m THEN [m EXCEPT ![k] = v] ELSE (k :> v) @@ m

Empty == [s \in {} |-> 0]

\* The outcome of a queue call: the fields of PriorityQueueInner after it,
\* the clock reading it ended with, what it returned.
Outcome(q, txs, st, c, ret, batch) ==
    [queue |-> q, transactions |-> txs, stats |-> st, now |-> c, ret |-> ret, batch |-> batch]

at_capacity_off_by_one(q) == len(q) > max_size

\* enqueue, priority.rs:171: inner.queue.len() >= self.max_size
at_capacity(q) == len(q) >= max_size

\* enqueue, priority.rs:183-200: priority, boost/reduce counters, insert
insert(q, txs, st, tx, verdict, t) ==
    LET priority == TransactionPriority_new(tx.priority_fee, verdict, t)
        st1 == CASE verdict = "Wag" -> [st EXCEPT !.total_boosted = @ + 1]
                 [] verdict = "Bark" -> [st EXCEPT !.total_reduced = @ + 1]
                 [] OTHER -> st
        q1 == with(q, tx.signature, priority)
    IN  Outcome(q1, with(txs, tx.signature, tx),
                [st1 EXCEPT !.total_enqueued = @ + 1, !.current_size = len(q1)],
                t, "Ok(true)", <<>>)

\* PriorityQueue::enqueue: the set of its outcomes from (q, txs, st) at clock
\* reading c. `lowest` is what peek returns and pop removes.
enqueue(q, txs, st, c, tx, verdict) ==
    IF should_drop(verdict)
    THEN {Outcome(q, txs, [st EXCEPT !.total_dropped = @ + 1], c, "Ok(false)", <<>>)}
    ELSE IF at_capacity(q)
    THEN UNION {
           IF peek(q) = {}
           THEN {insert(q, txs, st, tx, verdict, t2) : t2 \in InstantNow(t1)}
           ELSE UNION {
                  IF le(TransactionPriority_new(tx.priority_fee, verdict, t1), q[lowest])
                  THEN {Outcome(q, txs, st, t1, "Err", <<>>)}
                  ELSE {insert(without(q, lowest), txs, st, tx, verdict, t2) :
                            t2 \in InstantNow(t1)}
                  : lowest \in peek(q)}
           : t1 \in InstantNow(c)}
    ELSE {insert(q, txs, st, tx, verdict, t2) : t2 \in InstantNow(c)}

\* PriorityQueue::dequeue
dequeue(q, txs, st, c) ==
    IF peek(q) = {}
    THEN {Outcome(q, txs, st, c, "None", <<>>)}
    ELSE {LET q1 == without(q, sig)
              st1 == [st EXCEPT !.total_dequeued = @ + 1, !.current_size = len(q1)]
          IN  IF sig \in DOMAIN txs
              THEN Outcome(q1, without(txs, sig), st1, c, "Some", <<txs[sig]>>)
              ELSE Outcome(q1, txs, st1, c, "None", <<>>)
          : sig \in peek(q)}

\* the loop of dequeue_batch, priority.rs:221-229, with i rounds left
RECURSIVE pop_loop(_, _, _, _)
pop_loop(q, txs, batch, i) ==
    IF i = 0 \/ peek(q) = {}
    THEN {[queue |-> q, transactions |-> txs, batch |-> batch]}
    ELSE UNION {pop_loop(without(q, sig), without(txs, sig),
                         IF sig \in DOMAIN txs THEN Append(batch, txs[sig]) ELSE batch,
                         i - 1)
                : sig \in peek(q)}

dequeue_batch_short(q, txs, st, c, n) ==
    {Outcome(r.queue, r.transactions,
             [st EXCEPT !.total_dequeued = @ + Len(r.batch), !.current_size = len(r.queue)],
             c, "Vec", r.batch)
     : r \in pop_loop(q, txs, <<>>, IF n > 0 THEN n - 1 ELSE 0)}

\* PriorityQueue::dequeue_batch
dequeue_batch(q, txs, st, c, n) ==
    {Outcome(r.queue, r.transactions,
             [st EXCEPT !.total_dequeued = @ + Len(r.batch), !.current_size = len(r.queue)],
             c, "Vec", r.batch)
     : r \in pop_loop(q, txs, <<>>, n)}

\* i consecutive calls of dequeue with nothing in between, the transactions
\* they returned appended to batch in the order of the calls
RECURSIVE dequeue_calls(_, _, _, _, _, _)
dequeue_calls(q, txs, st, c, batch, i) ==
    IF i = 0
    THEN {Outcome(q, txs, st, c, "Vec", batch)}
    ELSE UNION {dequeue_calls(o.queue, o.transactions, o.stats, o.now, batch \o o.batch, i - 1)
                : o \in dequeue(q, txs, st, c)}

\* clear leaving the gauge as it was
clear_keeps_size(q, txs, st, c) ==
    {Outcome(Empty, Empty, st, c, "()", <<>>)}

\* PriorityQueue::clear
clear(q, txs, st, c) ==
    {Outcome(Empty, Empty, [st EXCEPT !.current_size = 0], c, "()", <<>>)}

\* ---------------------------------------------------- priority.rs, calls
\* The record of a call: n is its count argument or, for a lookup, the
\* number of remote calls it made; batch is what it returned, as a sequence;
\* key is the cache key of a lookup.
Call(op, task, tx, verdict, n, ret, batch) ==
    [op |-> op, task |-> task, tx |-> tx, verdict |-> verdict, n |-> n, ret |-> ret,
     batch |-> batch, key |-> 0]

\* the queue's fields after a call of outcome o
SetQueue(o) ==
    /\ queue' = o.queue
    /\ transactions' = o.transactions
    /\ stats' = o.stats
    /\ now' = o.now

\* a call made on the queue itself
Apply(op, tx, verdict, n, o) ==
    /\ SetQueue(o)
    /\ call' = Call(op, "-", tx, verdict, n, o.ret, o.batch)
    /\ UNCHANGED schedVars

Enqueue(sig, fee, verdict) ==
    /\ stats.total_enqueued + stats.total_dropped < MaxCount
    /\ \E o \in enqueue(queue, transactions, stats, now,
                        QueuedTransaction(sig, fee, verdict), verdict) :
           Apply("enqueue", QueuedTransaction(sig, fee, verdict), verdict, 0, o)

Dequeue ==
    \E o \in dequeue(queue, transactions, stats, now) : Apply("dequeue", NoTx, "-", 0, o)

DequeueBatch(n) ==
    \E o \in dequeue_batch(queue, transactions, stats, now, n) :
        Apply("dequeue_batch", NoTx, "-", n, o)

Clear ==
    \E o \in clear(queue, transactions, stats, now) : Apply("clear", NoTx, "-", 0, o)

\* ------------------------------------------------------------ scheduler.rs
Tasks == {"t1", "t2"}

None == <<>>
Some(x) == <<x>>

\* ReputationScore without k_score: q_score in points, confidence in
\* thousandths of a percent
ReputationScore(q_score, verdict, e_score, confidence) ==
    [q_score |-> q_score, verdict |-> verdict, e_score |-> e_score, confidence |-> confidence]

\* impl Default for ReputationScore
ReputationScore_default == ReputationScore(50, "Howl", None, PHI_INV * 100)

\* SchedulerConfig::default: enable_growl_filter, min_e_score
SchedulerConfig_default == [enable_growl_filter |-> TRUE, min_e_score |-> 0]

\* SchedulerStats::default
SchedulerStats_default ==
    [tpu_received |-> 0, worker_sent |-> 0, results_received |-> 0, successful |-> 0,
     failed |-> 0, cynic_api_calls |-> 0, current_slot |-> 0, is_leader |-> FALSE]

\* Result<ReputationScore>; the score of Err is never read
Ok(score) == [ok |-> TRUE, score |-> score]
Err == [ok |-> FALSE, score |-> ReputationScore_default]

\* the locals of a call: of process_transaction and get_batch (tx,
\* reputation, batch, n) and of get_wallet_reputation (key, caller, result;
\* remote: the remote calls made so far; resp: what the last one resolved
\* with)
NoLocals ==
    [tx |-> NoTx, reputation |-> ReputationScore_default, batch |-> <<>>, n |-> 0,
     key |-> 0, caller |-> "-", result |-> Err, remote |-> 0, resp |-> "-",
     sig |-> 0, i |-> 0, context |-> "-"]

stop_enter_unless_stopped(s) ==
    IF s = "Stopped"
    THEN [state |-> s, ret |-> "Ok", pc |-> "idle"]
    ELSE [state |-> "Stopping", ret |-> "-", pc |-> "stop_store"]

start_enter_if_not_running(s) ==
    IF s = "Running"
    THEN [state |-> s, ret |-> "Err", pc |-> "idle"]
    ELSE [state |-> "Starting", ret |-> "-", pc |-> "start_store"]

\* start, first critical section: the state it leaves, what it returns (or
\* "-" when the call goes on) and where the call stands
start_enter(s) ==
    IF s # "Stopped"
    THEN [state |-> s, ret |-> "Err", pc |-> "idle"]
    ELSE [state |-> "Starting", ret |-> "-", pc |-> "start_store"]

\* stop, first critical section
stop_enter(s) ==
    IF s # "Running"
    THEN [state |-> s, ret |-> "Ok", pc |-> "idle"]
    ELSE [state |-> "Stopping", ret |-> "-", pc |-> "stop_store"]

\* a step of task t in call op: the task moves to `to` with locals l, the
\* step returns ret ("-" when the call goes on); the locals end with the call
Step(t, op, to, ret, l) ==
    /\ pc' = [pc EXCEPT ![t] = to]
    /\ local' = [local EXCEPT ![t] = IF to = "idle" THEN NoLocals ELSE l]
    /\ call' = Call(op, t, l.tx, l.tx.reputation, 0, ret, l.batch)

StartSetsFirst(t) ==
    /\ pc[t] = "idle"
    /\ state' = "Starting"
    /\ Step(t, "start", start_enter(state).pc, start_enter(state).ret, NoLocals)
    /\ UNCHANGED <<queueVars, clientVars, config, running, sched_stats, restVars>>

\* CynicScheduler::start
Start(t) ==
    /\ pc[t] = "idle"
    /\ LET r == start_enter(state)
       IN  /\ state' = r.state
           /\ Step(t, "start", r.pc, r.ret, NoLocals)
    /\ UNCHANGED <<queueVars, clientVars, config, running, sched_stats, restVars>>

StartStore(t) ==
    /\ pc[t] = "start_store"
    /\ running' = TRUE
    /\ Step(t, "start", "start_running", "-", local[t])
    /\ UNCHANGED <<queueVars, clientVars, config, state, sched_stats, restVars>>

StartRunning(t) ==
    /\ pc[t] = "start_running"
    /\ state' = "Running"
    /\ Step(t, "start", "idle", "Ok", local[t])
    /\ UNCHANGED <<queueVars, clientVars, config, running, sched_stats, restVars>>

\* CynicScheduler::stop
Stop(t) ==
    /\ pc[t] = "idle"
    /\ LET r == stop_enter(state)
       IN  /\ state' = r.state
           /\ Step(t, "stop", r.pc, r.ret, NoLocals)
    /\ UNCHANGED <<queueVars, clientVars, config, running, sched_stats, restVars>>

StopStoreSkipped(t) ==
    /\ pc[t] = "stop_store"
    /\ Step(t, "stop", "stop_stopped", "-", local[t])
    /\ UNCHANGED <<queueVars, clientVars, config, state, running, sched_stats, restVars>>

\* stop: running.store(false)
StopStore(t) ==
    /\ pc[t] = "stop_store"
    /\ running' = FALSE
    /\ Step(t, "stop", "stop_stopped", "-", local[t])
    /\ UNCHANGED <<queueVars, clientVars, config, state, sched_stats, restVars>>

StopStopped(t) ==
    /\ pc[t] = "stop_stopped"
    /\ state' = "Stopped"
    /\ Step(t, "stop", "idle", "Ok", local[t])
    /\ UNCHANGED <<queueVars, clientVars, config, running, sched_stats, restVars>>

\* CynicScheduler::process_transaction, to the await of get_reputation
ProcessTransaction(t, sig, fee) ==
    /\ pc[t] = "idle"
    /\ sched_stats.tpu_received < MaxReceived
    /\ sched_stats' = [sched_stats EXCEPT !.tpu_received = @ + 1]
    /\ Step(t, "process_transaction", "pt_reputation", "-",
            [NoLocals EXCEPT !.tx = QueuedTransaction(sig, fee, "-")])
    /\ UNCHANGED <<queueVars, clientVars, config, state, running, restVars>>

\* CynicScheduler::get_reputation: get_wallet_reputation resolves with r, Ok
\* with a score or Err
GetReputation(t, r) ==
    /\ pc[t] = "pt_reputation"
    /\ sched_stats' = IF r.ok THEN [sched_stats EXCEPT !.cynic_api_calls = @ + 1]
                      ELSE sched_stats
    /\ LET reputation == IF r.ok THEN r.score ELSE ReputationScore_default
       IN  Step(t, "process_transaction", "pt_admit", "-",
                [local[t] EXCEPT !.reputation = reputation,
                                 !.tx.reputation = reputation.verdict])
    /\ UNCHANGED <<queueVars, clientVars, config, state, running, restVars>>

AdmitWhenLeader(t) ==
    /\ pc[t] = "pt_admit"
    /\ IF progress.is_leader
       THEN \E o \in enqueue(queue, transactions, stats, now, local[t].tx,
                             local[t].reputation.verdict) :
                /\ SetQueue(o)
                /\ Step(t, "process_transaction", "idle", o.ret, local[t])
       ELSE /\ UNCHANGED queueVars
            /\ Step(t, "process_transaction", "idle", "Ok(false)", local[t])
    /\ UNCHANGED <<clientVars, config, state, running, sched_stats, restVars>>

\* process_transaction from the GROWL filter to the enqueue
Admit(t) ==
    /\ pc[t] = "pt_admit"
    /\ LET reputation == local[t].reputation
       IN  IF config.enable_growl_filter /\ should_drop(reputation.verdict)
           THEN /\ UNCHANGED queueVars
                /\ Step(t, "process_transaction", "idle", "Ok(false)", local[t])
           ELSE IF reputation.e_score # None /\ reputation.e_score[1] < config.min_e_score
           THEN /\ UNCHANGED queueVars
                /\ Step(t, "process_transaction", "idle", "Ok(false)", local[t])
           ELSE \E o \in enqueue(queue, transactions, stats, now, local[t].tx,
                                 reputation.verdict) :
                    /\ SetQueue(o)
                    /\ Step(t, "process_transaction", "idle", o.ret, local[t])
    /\ UNCHANGED <<clientVars, config, state, running, sched_stats, restVars>>

\* CynicScheduler::get_batch: the dequeue_batch
GetBatch(t, n) ==
    /\ pc[t] = "idle"
    /\ \E o \in dequeue_batch(queue, transactions, stats, now, n) :
           /\ SetQueue(o)
           /\ pc' = [pc EXCEPT ![t] = "gb_stats"]
           /\ local' = [local EXCEPT ![t] = [NoLocals EXCEPT !.batch = o.batch]]
           /\ call' = Call("get_batch", t, NoTx, "-", n, "-", o.batch)
    /\ UNCHANGED <<clientVars, config, state, running, sched_stats, restVars>>

\* get_batch counting one transaction sent, whatever the batch
GetBatchStatsCountsOne(t) ==
    /\ pc[t] = "gb_stats"
    /\ sched_stats' = [sched_stats EXCEPT !.worker_sent = @ + 1]
    /\ Step(t, "get_batch", "idle", "Vec", local[t])
    /\ UNCHANGED <<queueVars, clientVars, config, state, running, restVars>>

\* get_batch: the worker_sent update and the return
GetBatchStats(t) ==
    /\ pc[t] = "gb_stats"
    /\ sched_stats' = [sched_stats EXCEPT !.worker_sent = @ + Len(local[t].batch)]
    /\ Step(t, "get_batch", "idle", "Vec", local[t])
    /\ UNCHANGED <<queueVars, clientVars, config, state, running, restVars>>

\* CynicScheduler::update_progress: the stores to the atomics
UpdateProgress(t, slot, is_leader) ==
    /\ pc[t] = "idle"
    /\ progress' = [current_slot |-> slot, is_leader |-> is_leader]
    /\ pc' = [pc EXCEPT ![t] = "up_stats"]
    /\ local' = [local EXCEPT ![t] = [NoLocals EXCEPT !.n = slot, !.resp = is_leader]]
    /\ call' = Call("update_progress", t, NoTx, "-", slot, "-", <<>>)
    /\ UNCHANGED <<queueVars, clientVars, config, state, running, sched_stats, delivered,
                   anchor>>

\* update_progress: self.stats.write(), the two fields, the return
UpdateProgressStats(t) ==
    /\ pc[t] = "up_stats"
    /\ sched_stats' = [sched_stats EXCEPT !.current_slot = local[t].n,
                                          !.is_leader = local[t].resp]
    /\ pc' = [pc EXCEPT ![t] = "idle"]
    /\ local' = [local EXCEPT ![t] = NoLocals]
    /\ call' = Call("update_progress", t, NoTx, "-", local[t].n, "()", <<>>)
    /\ UNCHANGED <<queueVars, clientVars, config, state, running, restVars>>

\* CynicScheduler::record_result
RecordResult(t, success) ==
    /\ pc[t] = "idle"
    /\ sched_stats' = IF success
                      THEN [sched_stats EXCEPT !.results_received = @ + 1,
                                               !.successful = @ + 1]
                      ELSE [sched_stats EXCEPT !.results_received = @ + 1,
                                               !.failed = @ + 1]
    /\ call' = Call("record_result", t, NoTx, "-", IF success THEN 1 ELSE 0, "()", <<>>)
    /\ UNCHANGED <<queueVars, clientVars, config, state, running, pc, local, restVars>>

\* --------------------------------------------------------- cynic_client.rs
Addresses == 1..NumAddresses
cache_ttl == CacheTtl

\* the lock guards: the queue's Mutex, the cache's RwLock, the statistics'
\* RwLock
Guard(lock, mode) == [lock |-> lock, mode |-> mode]

can_acquire_always(g) == TRUE

\* a guard can be taken when no task holds the lock, or when it is a read
\* guard and the lock is held by readers only
can_acquire(g) ==
    \A u \in Tasks : \A h \in guards[u] :
        h.lock = g.lock => (h.mode = "read" /\ g.mode = "read")

Acquire(t, g) == can_acquire(g) /\ guards' = [guards EXCEPT ![t] = @ \cup {g}]
Release(t, g) == guards' = [guards EXCEPT ![t] = @ \ {g}]

min_first(a, b) == a

\* f64::min
min(a, b) == IF a < b THEN a ELSE b

\* what the remote call resolves with: the request fails in transport or
\* times out, a response of non-success status, a body that does not parse,
\* or a JudgeResponse
JudgeResponse(q_score, verdict, confidence, e_score) ==
    [kind |-> "judged", q_score |-> q_score, verdict |-> verdict,
     confidence |-> confidence, e_score |-> e_score]
Failure(kind) ==
    [kind |-> kind, q_score |-> 0, verdict |-> "-", confidence |-> 0, e_score |-> None]

\* CynicClient::query_reputation, from the response on
query_reputation(resp) ==
    CASE resp.kind = "transport" -> Err
      [] resp.kind = "status" -> Ok(ReputationScore_default)
      [] resp.kind = "body" -> Err
      [] resp.kind = "judged" ->
             Ok(ReputationScore(resp.q_score, resp.verdict, resp.e_score,
                                min(resp.confidence, PHI_INV * 100)))

CacheEntry(score, cached_at) == [score |-> score, cached_at |-> cached_at]

\* CynicClient::get_cached, with t the reading of the clock that elapsed()
\* takes
get_cached(c, key, t) ==
    IF key \in DOMAIN c /\ t - c[key].cached_at < cache_ttl
    THEN Some(c[key].score)
    ELSE None

\* CynicClient::cache_stats, its first component: the entries younger than
\* the TTL at clock reading t
cache_stats(c, t) == Cardinality({k \in DOMAIN c : t - c[k].cached_at < cache_ttl})

\* cache_score pruning after every insertion
cache_score_always_prunes(c, key, score, t1, t2) ==
    LET c1 == with(c, key, CacheEntry(score, t1))
    IN  [k \in {k \in DOMAIN c1 : t2 - c1[k].cached_at < cache_ttl} |-> c1[k]]

\* CynicClient::cache_score, with t1 the clock reading of the insertion and t2
\* that of the pruning
cache_score(c, key, score, t1, t2) ==
    LET c1 == with(c, key, CacheEntry(score, t1))
    IN  IF len(c1) > CACHE_PRUNE_LEN
        THEN [k \in {k \in DOMAIN c1 : t2 - c1[k].cached_at < cache_ttl} |-> c1[k]]
        ELSE c1

\* get_token_reputation: format!("token:{}", mint), strings being sequences
\* of characters
TOKEN_PREFIX == <<"t", "o", "k", "e", "n", ":">>
token_key(mint) == TOKEN_PREFIX \o mint

\* get_wallet_reputation: the address itself is the key
wallet_key(address) == address

\* the record of a step of get_wallet_reputation or get_token_reputation
ClientCall(t, l, ret, batch) ==
    [Call(IF l.context = "token" THEN "get_token_reputation" ELSE "get_wallet_reputation",
          t, NoTx, "-", l.remote, ret, batch) EXCEPT !.key = l.key]

\* a step of get_wallet_reputation that does not return
ClientStep(t, to, l) ==
    /\ pc' = [pc EXCEPT ![t] = to]
    /\ local' = [local EXCEPT ![t] = l]
    /\ call' = ClientCall(t, l, "-", <<>>)

\* get_wallet_reputation returns r: to get_reputation, or to the caller of the
\* client
Returns(t, r, l) ==
    /\ call' = ClientCall(t, l, IF r.ok THEN "Ok" ELSE "Err", IF r.ok THEN <<r.score>> ELSE <<>>)
    /\ IF l.caller = "get_reputation"
       THEN /\ pc' = [pc EXCEPT ![t] = "gr_match"]
            /\ local' = [local EXCEPT ![t] = [l EXCEPT !.result = r]]
       ELSE /\ pc' = [pc EXCEPT ![t] = "idle"]
            /\ local' = [local EXCEPT ![t] = NoLocals]

\* CynicClient::get_wallet_reputation, called on the client
GetWalletReputation(t, address) ==
    /\ pc[t] = "idle"
    /\ ClientStep(t, "gc_lock", [NoLocals EXCEPT !.key = wallet_key(address),
                                                !.caller = "client", !.context = "wallet"])
    /\ UNCHANGED <<queueVars, config, state, running, sched_stats, cache, guards, restVars>>

\* CynicClient::get_token_reputation, called on the client: the steps after
\* the key are those of get_wallet_reputation
GetTokenReputation(t, mint) ==
    /\ pc[t] = "idle"
    /\ ClientStep(t, "gc_lock", [NoLocals EXCEPT !.key = token_key(mint),
                                                !.caller = "client", !.context = "token"])
    /\ UNCHANGED <<queueVars, config, state, running, sched_stats, cache, guards, restVars>>

\* get_cached: self.cache.read()
GetCachedLock(t) ==
    /\ pc[t] = "gc_lock"
    /\ Acquire(t, Guard("cache", "read"))
    /\ ClientStep(t, "gc_read", local[t])
    /\ UNCHANGED <<queueVars, config, state, running, sched_stats, cache, restVars>>

GetCachedReadKeepsGuard(t) ==
    /\ pc[t] = "gc_read"
    /\ \E c \in (IF local[t].key \in DOMAIN cache THEN InstantNow(now) ELSE {now}) :
           /\ now' = c
           /\ LET cached == get_cached(cache, local[t].key, c)
              IN  IF cached # None
                  THEN Release(t, Guard("cache", "read")) /\ Returns(t, Ok(cached[1]), local[t])
                  ELSE UNCHANGED guards /\ ClientStep(t, "qr_send", local[t])
    /\ UNCHANGED <<queue, transactions, stats, config, state, running, sched_stats,
                   cache, restVars>>

\* get_cached, under the read guard, to the return of a hit or to the request
\* of query_reputation; elapsed() reads the clock when there is an entry
GetCachedRead(t) ==
    /\ pc[t] = "gc_read"
    /\ Release(t, Guard("cache", "read"))
    /\ \E c \in (IF local[t].key \in DOMAIN cache THEN InstantNow(now) ELSE {now}) :
           /\ now' = c
           /\ LET cached == get_cached(cache, local[t].key, c)
              IN  IF cached # None
                  THEN Returns(t, Ok(cached[1]), local[t])
                  ELSE ClientStep(t, "qr_send", local[t])
    /\ UNCHANGED <<queue, transactions, stats, config, state, running, sched_stats,
                   cache, restVars>>

\* query_reputation: the remote call resolves with resp
QueryReputation(t, resp) ==
    /\ pc[t] = "qr_send"
    /\ LET l == [local[t] EXCEPT !.remote = @ + 1, !.resp = resp.kind]
           r == query_reputation(resp)
       IN  IF r.ok
           THEN ClientStep(t, "cs_lock", [l EXCEPT !.result = r])
           ELSE Returns(t, r, l)
    /\ UNCHANGED <<queueVars, config, state, running, sched_stats, cache, guards, restVars>>

\* cache_score: self.cache.write()
CacheScoreLock(t) ==
    /\ pc[t] = "cs_lock"
    /\ Acquire(t, Guard("cache", "write"))
    /\ ClientStep(t, "cs_write", local[t])
    /\ UNCHANGED <<queueVars, config, state, running, sched_stats, cache, restVars>>

\* cache_score, under the write guard, and the return of the score
CacheScoreWrite(t) ==
    /\ pc[t] = "cs_write"
    /\ Release(t, Guard("cache", "write"))
    /\ \E t1 \in InstantNow(now) :
           \E t2 \in (IF len(cache) + 1 > CACHE_PRUNE_LEN THEN InstantNow(t1) ELSE {t1}) :
               /\ cache' = cache_score(cache, local[t].key, local[t].result.score, t1, t2)
               /\ now' = t2
    /\ Returns(t, local[t].result, local[t])
    /\ UNCHANGED <<queue, transactions, stats, config, state, running, sched_stats,
                   restVars>>

\* cache_score as one step under the write guard of the cache; the record of
\* the call keeps the clock reading of the insertion in n
CacheScore(key, score) ==
    /\ \E t1 \in InstantNow(now) :
           \E t2 \in (IF len(with(cache, key, 0)) > CACHE_PRUNE_LEN
                      THEN InstantNow(t1) ELSE {t1}) :
               /\ cache' = cache_score(cache, key, score, t1, t2)
               /\ now' = t2
               /\ call' = [Call("cache_score", "-", NoTx, score.verdict, t1, "()", <<>>)
                             EXCEPT !.key = key]
    /\ UNCHANGED <<queue, transactions, stats, config, state, running, sched_stats, pc,
                   local, guards, restVars>>

\* ------------------------------------- scheduler.rs, with the lock guards
\* The calls of process_transaction and get_batch with every lock guard
\* shown: a step that takes a guard, a step that does the work under it and
\* drops it.

\* process_transaction: self.stats.write()
PtStatsLock(t, sig, address, fee) ==
    /\ pc[t] = "idle"
    /\ Acquire(t, Guard("stats", "write"))
    /\ Step(t, "process_transaction", "pt_stats", "-",
            [NoLocals EXCEPT !.tx = QueuedTransaction(sig, fee, "-"),
                             !.key = wallet_key(address), !.caller = "get_reputation",
                             !.context = "wallet"])
    /\ UNCHANGED <<queueVars, config, state, running, sched_stats, cache, restVars>>

PtStatsUnlockKeepsGuard(t) ==
    /\ pc[t] = "pt_stats"
    /\ sched_stats' = [sched_stats EXCEPT !.tpu_received = @ + 1]
    /\ Step(t, "process_transaction", "gc_lock", "-", local[t])
    /\ UNCHANGED <<queueVars, config, state, running, cache, guards, restVars>>

\* process_transaction: tpu_received += 1, end of the block; get_reputation
\* calls get_wallet_reputation
PtStatsUnlock(t) ==
    /\ pc[t] = "pt_stats"
    /\ sched_stats' = [sched_stats EXCEPT !.tpu_received = @ + 1]
    /\ Release(t, Guard("stats", "write"))
    /\ Step(t, "process_transaction", "gc_lock", "-", local[t])
    /\ UNCHANGED <<queueVars, config, state, running, cache, restVars>>

\* get_reputation, Ok(score): self.stats.write()
GrStatsLock(t) ==
    /\ pc[t] = "gr_match"
    /\ local[t].result.ok
    /\ Acquire(t, Guard("stats", "write"))
    /\ Step(t, "process_transaction", "gr_stats", "-",
            [local[t] EXCEPT !.reputation = local[t].result.score,
                             !.tx.reputation = local[t].result.score.verdict])
    /\ UNCHANGED <<queueVars, config, state, running, sched_stats, cache, restVars>>

\* get_reputation, Ok(score): cynic_api_calls += 1, score
GrStatsUnlock(t) ==
    /\ pc[t] = "gr_stats"
    /\ sched_stats' = [sched_stats EXCEPT !.cynic_api_calls = @ + 1]
    /\ Release(t, Guard("stats", "write"))
    /\ Step(t, "process_transaction", "pt_filter", "-", local[t])
    /\ UNCHANGED <<queueVars, config, state, running, cache, restVars>>

GrDefaultAborts(t) ==
    /\ pc[t] = "gr_match"
    /\ ~local[t].result.ok
    /\ Step(t, "process_transaction", "idle", "Err", local[t])
    /\ UNCHANGED <<queueVars, config, state, running, sched_stats, cache, guards, restVars>>

\* get_reputation, Err(e): ReputationScore::default()
GrDefault(t) ==
    /\ pc[t] = "gr_match"
    /\ ~local[t].result.ok
    /\ Step(t, "process_transaction", "pt_filter", "-",
            [local[t] EXCEPT !.reputation = ReputationScore_default,
                             !.tx.reputation = ReputationScore_default.verdict])
    /\ UNCHANGED <<queueVars, config, state, running, sched_stats, cache, guards, restVars>>

filtered_by_floor_only(cfg, reputation) ==
    reputation.e_score # None /\ reputation.e_score[1] < cfg.min_e_score

\* process_transaction, scheduler.rs:168-190: the GROWL filter and the
\* minimum E-Score
filtered(cfg, reputation) ==
    \/ cfg.enable_growl_filter /\ should_drop(reputation.verdict)
    \/ reputation.e_score # None /\ reputation.e_score[1] < cfg.min_e_score

\* process_transaction: return Ok(false)
PtFiltered(t) ==
    /\ pc[t] = "pt_filter"
    /\ filtered(config, local[t].reputation)
    /\ Step(t, "process_transaction", "idle", "Ok(false)", local[t])
    /\ UNCHANGED <<queueVars, config, state, running, sched_stats, cache, guards, restVars>>

\* enqueue: self.inner.lock()
EnqueueLock(t) ==
    /\ pc[t] = "pt_filter"
    /\ ~filtered(config, local[t].reputation)
    /\ Acquire(t, Guard("queue", "write"))
    /\ Step(t, "process_transaction", "enq_locked", "-", local[t])
    /\ UNCHANGED <<queueVars, config, state, running, sched_stats, cache, restVars>>

\* enqueue under the guard; process_transaction returns what it returns
EnqueueUnlock(t) ==
    /\ pc[t] = "enq_locked"
    /\ Release(t, Guard("queue", "write"))
    /\ \E o \in enqueue(queue, transactions, stats, now, local[t].tx,
                        local[t].reputation.verdict) :
           /\ SetQueue(o)
           /\ Step(t, "process_transaction", "idle", o.ret, local[t])
    /\ UNCHANGED <<config, state, running, sched_stats, cache, restVars>>

\* get_batch, dequeue_batch: self.inner.lock()
GbQueueLock(t, n) ==
    /\ pc[t] = "idle"
    /\ Acquire(t, Guard("queue", "write"))
    /\ pc' = [pc EXCEPT ![t] = "gb_queue"]
    /\ local' = [local EXCEPT ![t] = [NoLocals EXCEPT !.n = n]]
    /\ call' = Call("get_batch", t, NoTx, "-", n, "-", <<>>)
    /\ UNCHANGED <<queueVars, config, state, running, sched_stats, cache, restVars>>

\* dequeue_batch under the guard
GbQueueUnlock(t) ==
    /\ pc[t] = "gb_queue"
    /\ Release(t, Guard("queue", "write"))
    /\ \E o \in dequeue_batch(queue, transactions, stats, now, local[t].n) :
           /\ SetQueue(o)
           /\ pc' = [pc EXCEPT ![t] = "gb_stats_lock"]
           /\ local' = [local EXCEPT ![t].batch = o.batch]
           /\ call' = Call("get_batch", t, NoTx, "-", local[t].n, "-", o.batch)
    /\ UNCHANGED <<config, state, running, sched_stats, cache, restVars>>

\* get_batch: self.stats.write()
GbStatsLock(t) ==
    /\ pc[t] = "gb_stats_lock"
    /\ Acquire(t, Guard("stats", "write"))
    /\ pc' = [pc EXCEPT ![t] = "gb_stats_locked"]
    /\ call' = Call("get_batch", t, NoTx, "-", local[t].n, "-", local[t].batch)
    /\ UNCHANGED <<queueVars, config, state, running, sched_stats, cache, local, restVars>>

\* get_batch: worker_sent += batch.len(), batch
GbStatsUnlock(t) ==
    /\ pc[t] = "gb_stats_locked"
    /\ sched_stats' = [sched_stats EXCEPT !.worker_sent = @ + Len(local[t].batch)]
    /\ Release(t, Guard("stats", "write"))
    /\ pc' = [pc EXCEPT ![t] = "idle"]
    /\ local' = [local EXCEPT ![t] = NoLocals]
    /\ call' = Call("get_batch", t, NoTx, "-", local[t].n, "Vec", local[t].batch)
    /\ UNCHANGED <<queueVars, config, state, running, cache, restVars>>

\* ------------------------------- priority.rs, its calls made by the tasks
\* PriorityQueueInner sits in one parking_lot::Mutex: every call takes its
\* guard first and keeps it to its return. The lines a call runs under the
\* guard are steps of their own where they leave the ranking and the record
\* map apart: between the pop and the remove of dequeue, between the rounds
\* of dequeue_batch.
QueueGuard == Guard("queue", "write")

\* enqueue: self.inner.lock()
QEnqueueLock(t, sig, fee, verdict) ==
    /\ pc[t] = "idle"
    /\ Acquire(t, QueueGuard)
    /\ Step(t, "enqueue", "q_enq", "-",
            [NoLocals EXCEPT !.tx = QueuedTransaction(sig, fee, verdict)])
    /\ UNCHANGED <<queueVars, config, state, running, sched_stats, cache, restVars>>

\* enqueue under the guard, to its return
QEnqueueUnlock(t) ==
    /\ pc[t] = "q_enq"
    /\ Release(t, QueueGuard)
    /\ \E o \in enqueue(queue, transactions, stats, now, local[t].tx,
                        local[t].tx.reputation) :
           /\ SetQueue(o)
           /\ delivered' = IF o.ret = "Ok(true)"
                           THEN [delivered EXCEPT ![local[t].tx.signature] = 0]
                           ELSE delivered
           /\ Step(t, "enqueue", "idle", o.ret, local[t])
    /\ UNCHANGED <<config, state, running, sched_stats, cache, progress, anchor>>

\* dequeue: self.inner.lock()
QDequeueLock(t) ==
    /\ pc[t] = "idle"
    /\ Acquire(t, QueueGuard)
    /\ Step(t, "dequeue", "q_deq", "-", NoLocals)
    /\ UNCHANGED <<queueVars, config, state, running, sched_stats, cache, restVars>>

\* dequeue: inner.queue.pop(); None ends the call
QDequeuePop(t) ==
    /\ pc[t] = "q_deq"
    /\ IF peek(queue) = {}
       THEN /\ Release(t, QueueGuard)
            /\ Step(t, "dequeue", "idle", "None", local[t])
            /\ UNCHANGED queue
       ELSE \E sig \in peek(queue) :
                /\ queue' = without(queue, sig)
                /\ UNCHANGED guards
                /\ Step(t, "dequeue", "q_deq_remove", "-", [local[t] EXCEPT !.sig = sig])
    /\ UNCHANGED <<transactions, stats, now, config, state, running, sched_stats, cache,
                   restVars>>

\* dequeue: the counters, inner.transactions.remove(&sig), the return
QDequeueRemove(t) ==
    /\ pc[t] = "q_deq_remove"
    /\ Release(t, QueueGuard)
    /\ stats' = [stats EXCEPT !.total_dequeued = @ + 1, !.current_size = len(queue)]
    /\ LET sig == local[t].sig
       IN  IF sig \in DOMAIN transactions
           THEN /\ transactions' = without(transactions, sig)
                /\ delivered' = [delivered EXCEPT ![sig] = @ + 1]
                /\ Step(t, "dequeue", "idle", "Some",
                        [local[t] EXCEPT !.batch = <<transactions[sig]>>])
           ELSE /\ UNCHANGED <<transactions, restVars>>
                /\ Step(t, "dequeue", "idle", "None", local[t])
    /\ UNCHANGED <<queue, now, config, state, running, sched_stats, cache, progress,
                   anchor>>

\* dequeue_batch: self.inner.lock(), Vec::with_capacity(n)
QBatchLock(t, n) ==
    /\ pc[t] = "idle"
    /\ Acquire(t, QueueGuard)
    /\ pc' = [pc EXCEPT ![t] = "q_batch"]
    /\ local' = [local EXCEPT ![t] = [NoLocals EXCEPT !.n = n]]
    /\ call' = Call("dequeue_batch", t, NoTx, "-", n, "-", <<>>)
    /\ UNCHANGED <<queueVars, config, state, running, sched_stats, cache, restVars>>

\* dequeue_batch: one round of the loop that pops
QBatchRound(t) ==
    /\ pc[t] = "q_batch"
    /\ local[t].i < local[t].n
    /\ peek(queue) # {}
    /\ \E sig \in peek(queue) :
           /\ queue' = without(queue, sig)
           /\ transactions' = without(transactions, sig)
           /\ local' = [local EXCEPT ![t] =
                            [@ EXCEPT !.i = @ + 1,
                                      !.batch = IF sig \in DOMAIN transactions
                                                THEN Append(@, transactions[sig])
                                                ELSE @]]
    /\ call' = Call("dequeue_batch", t, NoTx, "-", local[t].n, "-", <<>>)
    /\ UNCHANGED <<stats, now, config, state, running, sched_stats, pc, cache, guards,
                   restVars>>

\* dequeue_batch: the loop is over (n rounds, or pop gave None); the
\* counters, the return
QBatchUnlock(t) ==
    /\ pc[t] = "q_batch"
    /\ local[t].i = local[t].n \/ peek(queue) = {}
    /\ Release(t, QueueGuard)
    /\ stats' = [stats EXCEPT !.total_dequeued = @ + Len(local[t].batch),
                              !.current_size = len(queue)]
    /\ delivered' =
           [s \in Sigs |->
               delivered[s]
               + Cardinality({k \in DOMAIN local[t].batch :
                                  local[t].batch[k].signature = s})]
    /\ pc' = [pc EXCEPT ![t] = "idle"]
    /\ local' = [local EXCEPT ![t] = NoLocals]
    /\ call' = Call("dequeue_batch", t, NoTx, "-", local[t].n, "Vec", local[t].batch)
    /\ UNCHANGED <<queue, transactions, now, config, state, running, sched_stats, cache,
                   progress, anchor>>

\* clear: self.inner.lock()
QClearLock(t) ==
    /\ pc[t] = "idle"
    /\ Acquire(t, QueueGuard)
    /\ Step(t, "clear", "q_clear", "-", NoLocals)
    /\ UNCHANGED <<queueVars, config, state, running, sched_stats, cache, restVars>>

\* clear under the guard, to its return
QClearUnlock(t) ==
    /\ pc[t] = "q_clear"
    /\ Release(t, QueueGuard)
    /\ \E o \in clear(queue, transactions, stats, now) :
           /\ SetQueue(o)
           /\ Step(t, "clear", "idle", o.ret, local[t])
    /\ UNCHANGED <<config, state, running, sched_stats, cache, restVars>>

\* ----------------------------------------------------------------- config.rs
\* An f64 of a configuration: a number in thousandths, or NaN. Every
\* comparison with NaN is false.
F64(v) == [nan |-> FALSE, v |-> v]
NaN == [nan |-> TRUE, v |-> 0]
f64_le(a, b) == ~a.nan /\ ~b.nan /\ a.v <= b.v
f64_ge(a, b) == ~a.nan /\ ~b.nan /\ a.v >= b.v

\* SchedulerConfig, as far as validate reads it
ValidatedConfig(max_queue_size, batch_size, num_workers, wag_multiplier, bark_multiplier) ==
    [max_queue_size |-> max_queue_size, batch_size |-> batch_size,
     num_workers |-> num_workers, wag_multiplier |-> wag_multiplier,
     bark_multiplier |-> bark_multiplier]

\* SchedulerConfig::validate
validate(cfg) ==
    IF cfg.max_queue_size = 0 THEN "Err"
    ELSE IF cfg.batch_size = 0 THEN "Err"
    ELSE IF cfg.num_workers = 0 THEN "Err"
    ELSE IF f64_le(cfg.wag_multiplier, F64(0)) THEN "Err"
    ELSE IF f64_le(cfg.bark_multiplier, F64(0)) \/ f64_ge(cfg.bark_multiplier, F64(ONE))
    THEN "Err"
    ELSE "Ok"

\* CynicScheduler::new: config.validate()?, then the scheduler with its
\* state Stopped. While none is constructed the state is "-".
SchedulerNew ==
    /\ state = "-"
    /\ state' = IF validate(config) = "Ok" THEN "Stopped" ELSE "-"
    /\ call' = Call("CynicScheduler::new", "-", NoTx, "-", 0, validate(config), <<>>)
    /\ UNCHANGED <<queueVars, config, running, sched_stats, pc, local, cache, guards,
                   restVars>>

\* ------------------------------------------- priority.rs, the priorities
\* TransactionPriority::new for the transactions of the two tasks, each at a
\* reading of the clock, and Ord::cmp of the first with the second
ComparePriorities(ta, tb) ==
    /\ call' = Call("cmp", "-", NoTx, "-", 0,
                    cmp(TransactionPriority_new(local["t1"].tx.priority_fee,
                                                local["t1"].tx.reputation, ta),
                        TransactionPriority_new(local["t2"].tx.priority_fee,
                                                local["t2"].tx.reputation, tb)),
                    <<TransactionPriority_new(local["t1"].tx.priority_fee,
                                              local["t1"].tx.reputation, ta),
                      TransactionPriority_new(local["t2"].tx.priority_fee,
                                              local["t2"].tx.reputation, tb)>>)
    /\ UNCHANGED <<queueVars, schedVars>>

\* ---------------------------------------------- scheduler.rs, stats()
\* CynicScheduler::stats: self.stats.read().clone(); local.key is `stats`
StatsClone(t) ==
    /\ pc[t] = "idle"
    /\ pc' = [pc EXCEPT ![t] = "st_queue"]
    /\ local' = [local EXCEPT ![t] = [NoLocals EXCEPT !.key = sched_stats]]
    /\ call' = Call("stats", t, NoTx, "-", 0, "-", <<>>)
    /\ UNCHANGED <<queueVars, clientVars, config, state, running, sched_stats, restVars>>

\* stats: stats.queue = self.priority_queue.stats()
StatsQueue(t) ==
    /\ pc[t] = "st_queue"
    /\ pc' = [pc EXCEPT ![t] = "st_cache"]
    /\ local' = [local EXCEPT ![t].key = [queue |-> stats] @@ @]
    /\ call' = Call("stats", t, NoTx, "-", 0, "-", <<>>)
    /\ UNCHANGED <<queueVars, clientVars, config, state, running, sched_stats, restVars>>

\* stats: cynic_cache_hits from cache_stats, and the return
StatsCache(t) ==
    /\ pc[t] = "st_cache"
    /\ \E u \in InstantNow(now) :
           /\ now' = u
           /\ call' = Call("stats", t, NoTx, "-", 0, "SchedulerStats",
                           <<[cynic_cache_hits |-> cache_stats(cache, u)] @@ local[t].key>>)
    /\ pc' = [pc EXCEPT ![t] = "idle"]
    /\ local' = [local EXCEPT ![t] = NoLocals]
    /\ UNCHANGED <<queue, transactions, stats, clientVars, config, state, running,
                   sched_stats, restVars>>

\* ------------------------------------- cynic_client.rs, the batch lookup
\* Iterator::take
take(s, n) == SubSeq(s, 1, min(n, Len(s)))

\* what the service answers for a subject of a batch: a transport failure
\* for the subjects of `fails`, a judgment of verdict v for the others
BatchResponse(a, fails, v) ==
    IF a \in fails THEN Failure("transport")
    ELSE JudgeResponse(100, v, PHI_INV * 100, None)

\* the lookups of the batch, one get_wallet_reputation each: the cache they
\* leave, the insertions at clock reading t. Each lookup that is answered
\* inserts its own key by cache_score; the subjects of a batch are distinct
\* and the cache stays below CACHE_PRUNE_LEN, so no insertion prunes.
batch_cache(c, taken, fails, v, t) ==
    LET answered == {a \in {taken[i] : i \in DOMAIN taken} :
                         /\ get_cached(c, a, t) = None
                         /\ query_reputation(BatchResponse(a, fails, v)).ok}
    IN  [k \in DOMAIN c \cup answered |->
            IF k \in answered
            THEN cache_score(c, k, query_reputation(BatchResponse(k, fails, v)).score,
                             t, t)[k]
            ELSE c[k]]

\* get_wallet_reputation(addr).await.unwrap_or_default()
batch_score(c, a, fails, v, t) ==
    IF get_cached(c, a, t) # None THEN get_cached(c, a, t)[1]
    ELSE LET r == query_reputation(BatchResponse(a, fails, v))
         IN  IF r.ok THEN r.score ELSE ReputationScore_default

\* CynicClient::get_batch_wallet_reputation: the map it returns and the
\* cache it leaves, the cache read at clock reading t1 and written at t2
get_batch_wallet_reputation(c, addresses, fails, v, t1, t2) ==
    LET hit(a) == get_cached(c, a, t1) # None
        uncached == SelectSeq(addresses, LAMBDA a : ~hit(a))
        taken == take(uncached, BATCH_LIMIT)
        Range(q) == {q[i] : i \in DOMAIN q}
    IN  [results |->
             [a \in {a \in Range(addresses) : hit(a)} \cup Range(taken) |->
                 IF hit(a) THEN get_cached(c, a, t1)[1]
                 ELSE batch_score(c, a, fails, v, t2)],
         cache |-> batch_cache(c, taken, fails, v, t2)]

\* a call of get_batch_wallet_reputation for the subjects 1..n
GetBatchWalletReputation(t, n, fails, v) ==
    /\ pc[t] = "idle"
    /\ \E t1 \in InstantNow(now) : \E t2 \in InstantNow(t1) :
           LET o == get_batch_wallet_reputation(cache, [i \in 1..n |-> i], fails, v, t1, t2)
           IN  /\ cache' = o.cache
               /\ now' = t2
               /\ call' = [Call("get_batch_wallet_reputation", t, NoTx, v, n, "HashMap",
                                o.results) EXCEPT !.key = fails]
    /\ UNCHANGED <<queue, transactions, stats, config, state, running, sched_stats, pc,
                   local, guards, restVars>>

\* get_batch_wallet_reputation up to the first poll of join_all: the loop
\* over the addresses reads the cache, and each future of the subjects taken
\* runs get_wallet_reputation to the await of its request, which it sends
\* unless the cache holds the subject. local.key is the map `results`,
\* local.batch the subjects whose requests are sent, local.i the number of
\* them answered; the service answers with local.reputation, and with a
\* transport failure to subject local.sig; t1 is the reading of the clock.
BatchSend(t, n, fail, v, t1) ==
    /\ pc[t] = "idle"
    /\ t1 \in InstantNow(now)
    /\ LET addresses == [i \in 1..n |-> i]
           hit(a) == get_cached(cache, a, t1) # None
           uncached == SelectSeq(addresses, LAMBDA a : ~hit(a))
           l == [NoLocals EXCEPT
                    !.n = n,
                    !.batch = take(uncached, BATCH_LIMIT),
                    !.key = [a \in {a \in 1..n : hit(a)} |-> get_cached(cache, a, t1)[1]],
                    !.reputation = ReputationScore(100, v, None, PHI_INV * 100),
                    !.sig = fail]
       IN  /\ now' = t1
           /\ pc' = [pc EXCEPT ![t] = "batch_join"]
           /\ local' = [local EXCEPT ![t] = l]
           /\ call' = Call("get_batch_wallet_reputation", t, NoTx, v, n, "-", l.batch)
    /\ UNCHANGED <<queue, transactions, stats, config, state, running, sched_stats, cache,
                   guards, restVars>>

\* the request of the next subject resolves: query_reputation, cache_score
\* when it is Ok, unwrap_or_default; the pair goes to `fetched`, which the
\* loop after join_all inserts into `results`
BatchAnswer(t) ==
    /\ pc[t] = "batch_join"
    /\ local[t].i < Len(local[t].batch)
    /\ LET a == local[t].batch[local[t].i + 1]
           r == query_reputation(IF a = local[t].sig THEN Failure("transport")
                                 ELSE JudgeResponse(local[t].reputation.q_score,
                                                    local[t].reputation.verdict,
                                                    local[t].reputation.confidence, None))
           score == IF r.ok THEN r.score ELSE ReputationScore_default
           l == [local[t] EXCEPT !.i = @ + 1, !.key = with(@, a, score)]
       IN  /\ cache' = IF r.ok THEN cache_score(cache, a, r.score, now, now) ELSE cache
           /\ local' = [local EXCEPT ![t] = l]
           /\ call' = [Call("get_batch_wallet_reputation", t, NoTx, l.reputation.verdict,
                            l.n, "-", l.batch) EXCEPT !.key = a]
    /\ UNCHANGED <<queue, transactions, stats, now, config, state, running, sched_stats, pc,
                   guards, restVars>>

\* join_all resolves once every request is answered; the call returns
\* `results`
BatchReturn(t) ==
    /\ pc[t] = "batch_join"
    /\ local[t].i = Len(local[t].batch)
    /\ pc' = [pc EXCEPT ![t] = "idle"]
    /\ local' = [local EXCEPT ![t] = NoLocals]
    /\ call' = Call("get_batch_wallet_reputation", t, NoTx, local[t].reputation.verdict,
                    local[t].n, "HashMap", local[t].key)
    /\ UNCHANGED <<queue, transactions, stats, now, config, state, running, sched_stats,
                   cache, guards, restVars>>

\* the remote requests of task t's batch lookup that are sent and not
\* answered
requests_in_flight(t) ==
    IF pc[t] = "batch_join" THEN Len(local[t].batch) - local[t].i ELSE 0

\* ------------------------------------------- programs/cynic-anchor/lib.rs
\* Pubkey::default(), and the other keys
Pubkey_default == 0
Pubkeys == 0..(MAX_VALIDATORS + MaxExtraKeys)

\* CynicState, as far as the registry goes: validators is the array
\* [Pubkey; MAX_VALIDATORS], indexed from 0. The account is zeroed before
\* initialize, which sets validator_count = 0.
CynicState(validator_count, validators) ==
    [validator_count |-> validator_count, validators |-> validators]
CynicState_default ==
    CynicState(0, [i \in 0..(MAX_VALIDATORS - 1) |-> Pubkey_default])

\* the accounts of the program and the clock, before any instruction but
\* initialize
\* ValidatorStake, as far as staking goes; initialized is false while the
\* account does not exist (before the first stake_validator, after a close)
ValidatorStake(initialized, staked_amount, slash_count, total_slashed, requested, active) ==
    [initialized |-> initialized, staked_amount |-> staked_amount,
     slash_count |-> slash_count, total_slashed |-> total_slashed,
     unstake_requested_slot |-> requested, is_active |-> active]
ValidatorStake_default == ValidatorStake(FALSE, 0, 0, 0, 0, FALSE)

\* EScoreEntry without its keys: counts[k] is the counter of contribution
\* type k (judgment_count .. feedback_count). The account is zeroed when
\* init_if_needed creates it.
EScoreEntry(score, update_count, last_update_slot, counts) ==
    [score |-> score, update_count |-> update_count, last_update_slot |-> last_update_slot,
     counts |-> counts]
EScoreEntry_default == EScoreEntry(0, 0, 0, [k \in 0..ESCORE_TYPE_FEEDBACK |-> 0])

\* the accounts of the program and the clock, before any instruction but
\* initialize: state is the CynicState account, stake the ValidatorStake
\* account of one validator, slot is Clock::get()?.slot. requested_at is
\* history: the slot of the request_unstake that succeeded since the last
\* stake_validator that succeeded, -1 when there is none. escore is the
\* E-Score entry of one account; updated_at is history: the slot of the last
\* update_escore that succeeded, -1 when there is none.
NoAnchor ==
    [state |-> CynicState_default, stake |-> ValidatorStake_default, slot |-> 1,
     requested_at |-> 0 - 1, escore |-> EScoreEntry_default, updated_at |-> 0 - 1]

add_validator_unchecked(st, validator) ==
    IF ~(st.validator_count < MAX_VALIDATORS)
    THEN [state |-> st, ret |-> "TooManyValidators"]
    ELSE [state |-> CynicState(st.validator_count + 1,
                               [st.validators EXCEPT ![st.validator_count] = validator]),
          ret |-> "Ok"]

\* add_validator: the account after the instruction and its result; an
\* instruction that fails leaves the account as it was
add_validator(st, validator) ==
    IF ~(st.validator_count < MAX_VALIDATORS)
    THEN [state |-> st, ret |-> "TooManyValidators"]
    ELSE IF \E i \in 0..(st.validator_count - 1) : st.validators[i] = validator
    THEN [state |-> st, ret |-> "AlreadyValidator"]
    ELSE [state |-> CynicState(st.validator_count + 1,
                               [st.validators EXCEPT ![st.validator_count] = validator]),
          ret |-> "Ok"]

\* remove_validator: the first slot holding the key is found, the slots
\* above it are shifted down, the last of them is set to the default
remove_validator(st, validator) ==
    LET found == {i \in 0..(st.validator_count - 1) : st.validators[i] = validator}
        count == st.validator_count
    IN  IF found = {}
        THEN [state |-> st, ret |-> "NotValidator"]
        ELSE LET index == CHOOSE i \in found : \A j \in found : i <= j
             IN  [state |->
                      CynicState(count - 1,
                                 [i \in 0..(MAX_VALIDATORS - 1) |->
                                     IF i >= index /\ i < count - 1 THEN st.validators[i + 1]
                                     ELSE IF i = count - 1 THEN Pubkey_default
                                     ELSE st.validators[i]]),
                  ret |-> "Ok"]

\* an instruction on the registry
Instruction(op, validator, o) ==
    /\ anchor' = [anchor EXCEPT !.state = o.state]
    /\ call' = Call(op, "-", NoTx, "-", validator, o.ret, <<>>)
    /\ UNCHANGED <<queueVars, config, state, running, sched_stats, pc, local, cache, guards,
                   delivered, progress>>

AddValidator(validator) ==
    Instruction("add_validator", validator, add_validator(anchor.state, validator))

\* u64 a * b / c for c = SLASH_SCALE, computed without leaving 32 bits
mul_div(a, b, c) == (a \div c) * b + ((a % c) * b) \div c

\* stake_validator with init_if_needed: the account is created zeroed when
\* it does not exist; the request slot is not among the fields written
stake_validator(stake, amount) ==
    IF ~(amount >= MIN_VALIDATOR_STAKE)
    THEN [stake |-> stake, ret |-> "InsufficientStake", n |-> 0]
    ELSE [stake |-> [stake EXCEPT !.initialized = TRUE,
                                  !.staked_amount = stake.staked_amount + amount,
                                  !.is_active = TRUE],
          ret |-> "Ok", n |-> amount]

request_unstake(stake, slot) ==
    IF ~stake.initialized
    THEN [stake |-> stake, ret |-> "AccountNotInitialized", n |-> 0]
    ELSE IF ~stake.is_active
    THEN [stake |-> stake, ret |-> "ValidatorNotActive", n |-> 0]
    ELSE [stake |-> [stake EXCEPT !.unstake_requested_slot = slot, !.is_active = FALSE],
          ret |-> "Ok", n |-> 0]

\* complete_unstake: n is the lamports transferred back to the validator;
\* the stake account is closed (close = validator)
complete_unstake(stake, current_slot) ==
    IF ~stake.initialized
    THEN [stake |-> stake, ret |-> "AccountNotInitialized", n |-> 0]
    ELSE IF stake.is_active
    THEN [stake |-> stake, ret |-> "ValidatorStillActive", n |-> 0]
    ELSE IF ~(stake.unstake_requested_slot > 0)
    THEN [stake |-> stake, ret |-> "UnstakeNotRequested", n |-> 0]
    ELSE IF ~(current_slot >= stake.unstake_requested_slot + UNSTAKE_COOLDOWN)
    THEN [stake |-> stake, ret |-> "UnstakeCooldownNotComplete", n |-> 0]
    ELSE [stake |-> ValidatorStake_default, ret |-> "Ok", n |-> stake.staked_amount]

slash_validator(stake, reason) ==
    IF ~stake.initialized
    THEN [stake |-> stake, ret |-> "AccountNotInitialized", n |-> 0]
    ELSE IF ~stake.is_active
    THEN [stake |-> stake, ret |-> "ValidatorNotActive", n |-> 0]
    ELSE IF ~(reason <= BURN_REASON_SLASHING)
    THEN [stake |-> stake, ret |-> "InvalidBurnReason", n |-> 0]
    ELSE LET slash_amount == mul_div(stake.staked_amount, SLASH_PERCENTAGE, SLASH_SCALE)
             staked_amount == stake.staked_amount - slash_amount
         IN  [stake |-> [stake EXCEPT !.staked_amount = staked_amount,
                                      !.slash_count = stake.slash_count + 1,
                                      !.total_slashed = stake.total_slashed + slash_amount,
                                      !.is_active = IF staked_amount < MIN_VALIDATOR_STAKE
                                                    THEN FALSE ELSE stake.is_active],
              ret |-> "Ok", n |-> slash_amount]

\* an instruction on the stake account; requested_at is what it leaves of
\* the history
StakeInstruction(op, o, requested_at) ==
    /\ anchor' = [anchor EXCEPT !.stake = o.stake, !.requested_at = requested_at]
    /\ call' = Call(op, "-", NoTx, "-", o.n, o.ret, <<>>)
    /\ UNCHANGED <<queueVars, config, state, running, sched_stats, pc, local, cache, guards,
                   delivered, progress>>

StakeValidator(amount) ==
    LET o == stake_validator(anchor.stake, amount)
    IN  /\ anchor.stake.staked_amount + amount <= MaxStakes * MIN_VALIDATOR_STAKE
        /\ StakeInstruction("stake_validator", o,
                            IF o.ret = "Ok" THEN 0 - 1 ELSE anchor.requested_at)

RequestUnstake ==
    LET o == request_unstake(anchor.stake, anchor.slot)
    IN  StakeInstruction("request_unstake", o,
                         IF o.ret = "Ok" THEN anchor.slot ELSE anchor.requested_at)

CompleteUnstake ==
    LET o == complete_unstake(anchor.stake, anchor.slot)
    IN  StakeInstruction("complete_unstake", o,
                         IF o.ret = "Ok" THEN 0 - 1 ELSE anchor.requested_at)

SlashValidator(reason) ==
    /\ anchor.stake.slash_count < MaxSlashes
    /\ StakeInstruction("slash_validator", slash_validator(anchor.stake, reason),
                        anchor.requested_at)

\* the cluster moves on by slots slots
AdvanceSlot(slots) ==
    /\ anchor.slot + slots <= MaxCooldowns * UNSTAKE_COOLDOWN + MaxDrift
    /\ anchor' = [anchor EXCEPT !.slot = anchor.slot + slots]
    /\ call' = Call("slot", "-", NoTx, "-", slots, "()", <<>>)
    /\ UNCHANGED <<queueVars, config, state, running, sched_stats, pc, local, cache, guards,
                   delivered, progress>>

RemoveValidator(validator) ==
    Instruction("remove_validator", validator, remove_validator(anchor.state, validator))

\* update_escore: the entry it leaves and what it returns. delta is within
\* the integers of the model, where saturating_add does not saturate.
update_escore(st, entry, reporter, delta, contribution_type, current_slot) ==
    IF ~(\E i \in 0..(st.validator_count - 1) : st.validators[i] = reporter)
    THEN [escore |-> entry, ret |-> "NotValidator"]
    ELSE IF ~(contribution_type <= ESCORE_TYPE_FEEDBACK)
    THEN [escore |-> entry, ret |-> "InvalidEScoreType"]
    ELSE IF /\ entry.last_update_slot > 0
            /\ ~(current_slot >= entry.last_update_slot + ESCORE_UPDATE_COOLDOWN)
    THEN [escore |-> entry, ret |-> "EScoreCooldown"]
    ELSE LET new_score == entry.score + delta
             clamped_score == IF new_score > ESCORE_MAX THEN ESCORE_MAX
                              ELSE IF new_score < ESCORE_MIN THEN ESCORE_MIN
                              ELSE new_score
         IN  [escore |-> EScoreEntry(clamped_score, entry.update_count + 1, current_slot,
                                     [entry.counts EXCEPT ![contribution_type] = @ + 1]),
              ret |-> "Ok"]

UpdateEScore(reporter, delta, contribution_type) ==
    LET o == update_escore(anchor.state, anchor.escore, reporter, delta, contribution_type,
                           anchor.slot)
    IN  /\ anchor.escore.update_count < MaxUpdates
        /\ anchor' = [anchor EXCEPT !.escore = o.escore,
                                    !.updated_at = IF o.ret = "Ok" THEN anchor.slot ELSE @]
        /\ call' = [Call("update_escore", "-", NoTx, "-", contribution_type, o.ret, <<>>)
                       EXCEPT !.key = reporter]
        /\ UNCHANGED <<queueVars, config, state, running, sched_stats, pc, local, cache,
                       guards, delivered, progress>>

\* Clock::get()?.slot moves on, while E-Score updates are made
EScoreSlot(slots) ==
    /\ anchor.slot + slots <= MaxUpdates * ESCORE_UPDATE_COOLDOWN + MaxDrift
    /\ anchor' = [anchor EXCEPT !.slot = anchor.slot + slots]
    /\ call' = Call("slot", "-", NoTx, "-", slots, "()", <<>>)
    /\ UNCHANGED <<queueVars, config, state, running, sched_stats, pc, local, cache, guards,
                   delivered, progress>>

\* ----------------------------------------------------------- specifications
\* PriorityQueue::new and CynicScheduler::new with configuration cfg
InitWith(cfg) ==
    /\ queue = Empty
    /\ transactions = Empty
    /\ stats = QueueStats_default
    /\ now = 0
    /\ call = Call("new", "-", NoTx, "-", 0, "()", <<>>)
    /\ config = cfg
    /\ state = "Stopped"
    /\ running = FALSE
    /\ sched_stats = SchedulerStats_default
    /\ pc = [t \in Tasks |-> "idle"]
    /\ local = [t \in Tasks |-> NoLocals]
    /\ cache = Empty
    /\ guards = [t \in Tasks |-> {}]
    /\ delivered = [s \in Sigs |-> 0]
    /\ progress = [current_slot |-> 0, is_leader |-> FALSE]
    /\ anchor = NoAnchor

\* ... with the default configuration
Init == InitWith(SchedulerConfig_default)

BatchSizes == 0..(MaxQueueSize + 1)

\* Signatures are only compared for equality (they are map keys), so a
\* signature held by neither map stands for every other such signature: the
\* callers offer the signatures the maps hold and the least one they do not.
OfferedSigs ==
    LET held == DOMAIN queue \cup DOMAIN transactions
        fresh == Sigs \ held
    IN  held \cup {s \in fresh : \A o \in fresh : s <= o}

Next ==
    \/ \E sig \in OfferedSigs, fee \in Fees, verdict \in Verdicts : Enqueue(sig, fee, verdict)
    \/ Dequeue
    \/ \E n \in BatchSizes : DequeueBatch(n)
    \/ Clear

Spec == Init /\ [][Next]_vars

\* what get_wallet_reputation resolves with
EScores == {None, Some(0)}
Lookups ==
    {[ok |-> TRUE, score |-> ReputationScore(100, v, e, PHI_INV * 100)] :
         v \in Verdicts, e \in EScores}
    \cup {[ok |-> FALSE, score |-> ReputationScore_default]}

NextScheduler ==
    \/ \E t \in Tasks : Start(t)
    \/ \E t \in Tasks : StartStore(t)
    \/ \E t \in Tasks : StartRunning(t)
    \/ \E t \in Tasks : Stop(t)
    \/ \E t \in Tasks : StopStore(t)
    \/ \E t \in Tasks : StopStopped(t)
    \/ \E t \in Tasks, sig \in OfferedSigs, fee \in Fees : ProcessTransaction(t, sig, fee)
    \/ \E t \in Tasks, r \in Lookups : GetReputation(t, r)
    \/ \E t \in Tasks : Admit(t)
    \/ \E t \in Tasks, n \in BatchSizes : GetBatch(t, n)
    \/ \E t \in Tasks : GetBatchStats(t)

SpecScheduler == Init /\ [][NextScheduler]_vars

\* what the judgment service answers: confidences below 0, just above the cap
\* and above 100; the client copies the other fields
QScores == {100}
UpstreamConfidences == {0 - ONE, PHI_INV * 100 + 1, 100 * ONE + 1}
Responses ==
    {Failure(k) : k \in {"transport", "status", "body"}}
    \cup {JudgeResponse(q, v, c, None) :
              q \in QScores, v \in {"Wag", "Growl"}, c \in UpstreamConfidences}

\* tasks looking wallets up on the client
NextClient ==
    \/ \E t \in Tasks, address \in Addresses : GetWalletReputation(t, address)
    \/ \E t \in Tasks : GetCachedLock(t)
    \/ \E t \in Tasks : GetCachedRead(t)
    \/ \E t \in Tasks, resp \in Responses : QueryReputation(t, resp)
    \/ \E t \in Tasks : CacheScoreLock(t)
    \/ \E t \in Tasks : CacheScoreWrite(t)

SpecClient == Init /\ [][NextClient]_vars

\* the answers that differ in what admission reads, and the batch sizes
AdmissionResponses == {r \in Responses : r.kind = "judged" => r.confidence = 0 - ONE}
AdmissionBatchSizes == {1, MaxQueueSize}

\* tasks admitting transactions and taking batches, with the lock guards
NextAdmission ==
    \/ /\ sched_stats.tpu_received < MaxAdmitted
       /\ \E t \in Tasks, sig \in OfferedSigs, address \in Addresses, fee \in Fees :
              PtStatsLock(t, sig, address, fee)
    \/ \E t \in Tasks : PtStatsUnlock(t)
    \/ \E t \in Tasks : GetCachedLock(t)
    \/ \E t \in Tasks : GetCachedRead(t)
    \/ \E t \in Tasks, resp \in AdmissionResponses : QueryReputation(t, resp)
    \/ \E t \in Tasks : CacheScoreLock(t)
    \/ \E t \in Tasks : CacheScoreWrite(t)
    \/ \E t \in Tasks : GrStatsLock(t)
    \/ \E t \in Tasks : GrStatsUnlock(t)
    \/ \E t \in Tasks : GrDefault(t)
    \/ \E t \in Tasks : PtFiltered(t)
    \/ \E t \in Tasks : EnqueueLock(t)
    \/ \E t \in Tasks : EnqueueUnlock(t)
    \/ \E t \in Tasks, n \in AdmissionBatchSizes : GbQueueLock(t, n)
    \/ \E t \in Tasks : GbQueueUnlock(t)
    \/ \E t \in Tasks : GbStatsLock(t)
    \/ \E t \in Tasks : GbStatsUnlock(t)

SpecAdmission == Init /\ [][NextAdmission]_vars

\* The steps a task takes once it is inside process_transaction. A step
\* that takes a guard waits for the lock.
Continue(t) ==
    \/ PtStatsUnlock(t)
    \/ GetCachedLock(t)
    \/ GetCachedRead(t)
    \/ \E resp \in AdmissionResponses : QueryReputation(t, resp)
    \/ CacheScoreLock(t)
    \/ CacheScoreWrite(t)
    \/ GrStatsLock(t)
    \/ GrStatsUnlock(t)
    \/ GrDefault(t)
    \/ PtFiltered(t)
    \/ EnqueueLock(t)
    \/ EnqueueUnlock(t)

\* Scheduling: a task that can take its next step takes it (the runtime
\* polls a ready future; the request resolves with a response, an error or
\* the timeout of Client::builder().timeout(..)); a task waiting for a lock
\* gets it if the lock is free again and again (parking_lot's locks are
\* eventually fair).
Fairness ==
    \A t \in Tasks :
        /\ WF_vars(PtStatsUnlock(t))
        /\ SF_vars(GetCachedLock(t))
        /\ WF_vars(GetCachedRead(t))
        /\ WF_vars(\E resp \in AdmissionResponses : QueryReputation(t, resp))
        /\ SF_vars(CacheScoreLock(t))
        /\ WF_vars(CacheScoreWrite(t))
        /\ SF_vars(GrStatsLock(t))
        /\ WF_vars(GrStatsUnlock(t))
        /\ WF_vars(GrDefault(t))
        /\ WF_vars(PtFiltered(t))
        /\ SF_vars(EnqueueLock(t))
        /\ WF_vars(EnqueueUnlock(t))

\* the tasks admitting transactions at once
NextAdmissions ==
    \/ /\ sched_stats.tpu_received < MaxConcurrent
       /\ \E t \in Tasks, sig \in OfferedSigs, address \in Addresses, fee \in Fees :
              PtStatsLock(t, sig, address, fee)
    \/ \E t \in Tasks : PtStatsUnlock(t)
    \/ \E t \in Tasks : GetCachedLock(t)
    \/ \E t \in Tasks : GetCachedRead(t)
    \/ \E t \in Tasks, resp \in AdmissionResponses : QueryReputation(t, resp)
    \/ \E t \in Tasks : CacheScoreLock(t)
    \/ \E t \in Tasks : CacheScoreWrite(t)
    \/ \E t \in Tasks : GrStatsLock(t)
    \/ \E t \in Tasks : GrStatsUnlock(t)
    \/ \E t \in Tasks : GrDefault(t)
    \/ \E t \in Tasks : PtFiltered(t)
    \/ \E t \in Tasks : EnqueueLock(t)
    \/ \E t \in Tasks : EnqueueUnlock(t)

SpecAdmissionsFair == Init /\ [][NextAdmissions]_vars /\ Fairness

\* the configurations of the filters, and the answers that differ in what
\* the filters and the queue read
\* (a failure stands for the answers of verdict Howl without E-Score)
Configs == {SchedulerConfig_default, [enable_growl_filter |-> FALSE, min_e_score |-> 1]}
ProcessEScores == {None, Some(0 - 1), Some(1)}
ProcessResponses ==
    {Failure(k) : k \in {"transport", "status", "body"}}
    \cup {JudgeResponse(q, v, 0 - ONE, e) :
              q \in QScores, v \in Verdicts \ {"Howl"}, e \in ProcessEScores}

InitProcess == \E cfg \in Configs : InitWith(cfg)

\* one task admitting transactions, call after call
NextProcess ==
    \/ /\ sched_stats.tpu_received < MaxProcessed
       /\ \E sig \in OfferedSigs, address \in Addresses, fee \in Fees :
              PtStatsLock("t1", sig, address, fee)
    \/ PtStatsUnlock("t1")
    \/ GetCachedLock("t1")
    \/ GetCachedRead("t1")
    \/ \E resp \in ProcessResponses : QueryReputation("t1", resp)
    \/ CacheScoreLock("t1")
    \/ CacheScoreWrite("t1")
    \/ GrStatsLock("t1")
    \/ GrStatsUnlock("t1")
    \/ GrDefault("t1")
    \/ PtFiltered("t1")
    \/ EnqueueLock("t1")
    \/ EnqueueUnlock("t1")

SpecProcess == InitProcess /\ [][NextProcess]_vars

\* the tasks calling the queue itself, each call behind the queue's mutex
TaskBatchSizes == {MaxQueueSize}
TaskVerdicts == {"Wag", "Howl"}
NextQueueTasks ==
    \E t \in Tasks :
        \/ /\ stats.total_enqueued + stats.total_dropped < MaxInserted
           /\ \E sig \in Sigs, fee \in Fees, verdict \in TaskVerdicts :
                  QEnqueueLock(t, sig, fee, verdict)
        \/ QEnqueueUnlock(t)
        \/ QDequeueLock(t)
        \/ QDequeuePop(t)
        \/ QDequeueRemove(t)
        \/ \E n \in TaskBatchSizes : QBatchLock(t, n)
        \/ QBatchRound(t)
        \/ QBatchUnlock(t)
        \/ QClearLock(t)
        \/ QClearUnlock(t)

SpecQueueTasks == Init /\ [][NextQueueTasks]_vars

\* one task calling enqueue and dequeue while the other calls dequeue_batch
\* with every count up to one more than the queue can hold
NextDequeueBatch ==
    \/ /\ stats.total_enqueued + stats.total_dropped < MaxInserted
       /\ \E sig \in OfferedSigs, fee \in Fees, verdict \in TaskVerdicts :
              QEnqueueLock("t1", sig, fee, verdict)
    \/ QEnqueueUnlock("t1")
    \/ QDequeueLock("t1")
    \/ QDequeuePop("t1")
    \/ QDequeueRemove("t1")
    \/ \E n \in BatchSizes : QBatchLock("t2", n)
    \/ QBatchRound("t2")
    \/ QBatchUnlock("t2")

SpecDequeueBatch == Init /\ [][NextDequeueBatch]_vars

\* the configurations handed to CynicScheduler::new
Usizes == 0..MaxUsize
Multipliers == {F64(0 - ONE), F64(0), F64(PHI_INV), F64(ONE), F64(PHI), NaN}
ConfigInputs ==
    {ValidatedConfig(q, b, w, wag, bark) :
         q \in Usizes, b \in Usizes, w \in Usizes, wag \in Multipliers, bark \in Multipliers}

InitConfig ==
    /\ queue = Empty
    /\ transactions = Empty
    /\ stats = QueueStats_default
    /\ now = 0
    /\ call = Call("-", "-", NoTx, "-", 0, "-", <<>>)
    /\ config \in ConfigInputs
    /\ state = "-"
    /\ running = FALSE
    /\ sched_stats = SchedulerStats_default
    /\ pc = [t \in Tasks |-> "idle"]
    /\ local = [t \in Tasks |-> NoLocals]
    /\ cache = Empty
    /\ guards = [t \in Tasks |-> {}]
    /\ delivered = [s \in Sigs |-> 0]
    /\ progress = [current_slot |-> 0, is_leader |-> FALSE]
    /\ anchor = NoAnchor

NextConfig == SchedulerNew

SpecConfig == InitConfig /\ [][NextConfig]_vars

\* two transactions of one base fee, zero included, under any two verdicts
BaseFees == 0..MaxFee
Instants == 0..MaxTime
InitPriority ==
    /\ queue = Empty
    /\ transactions = Empty
    /\ stats = QueueStats_default
    /\ now = 0
    /\ call = Call("-", "-", NoTx, "-", 0, "-", <<>>)
    /\ config = SchedulerConfig_default
    /\ state = "Stopped"
    /\ running = FALSE
    /\ sched_stats = SchedulerStats_default
    /\ pc = [t \in Tasks |-> "idle"]
    /\ \E fee \in BaseFees, va \in Verdicts, vb \in Verdicts :
           local = [t \in Tasks |->
                       [NoLocals EXCEPT !.tx =
                            IF t = "t1" THEN QueuedTransaction(1, fee, va)
                            ELSE QueuedTransaction(2, fee, vb)]]
    /\ cache = Empty
    /\ guards = [t \in Tasks |-> {}]
    /\ delivered = [s \in Sigs |-> 0]
    /\ progress = [current_slot |-> 0, is_leader |-> FALSE]
    /\ anchor = NoAnchor

NextPriority == \E ta \in Instants, tb \in Instants : ComparePriorities(ta, tb)

SpecPriority == InitPriority /\ [][NextPriority]_vars

\* one task admitting and taking batches while the other records progress
\* and results
Slots == 0..MaxSlot
SinkLookups == {r \in Lookups : r.ok => r.score.e_score = None}
SinkBatchSizes == {MaxQueueSize}
NextSinks ==
    \/ \E sig \in OfferedSigs, fee \in Fees : ProcessTransaction("t2", sig, fee)
    \/ \E r \in SinkLookups : GetReputation("t2", r)
    \/ Admit("t2")
    \/ \E n \in SinkBatchSizes : GetBatch("t2", n)
    \/ GetBatchStats("t2")
    \/ \E slot \in Slots, is_leader \in BOOLEAN : UpdateProgress("t1", slot, is_leader)
    \/ UpdateProgressStats("t1")
    \/ /\ sched_stats.results_received < MaxResults
       /\ \E success \in BOOLEAN : RecordResult("t1", success)

SpecSinks == Init /\ [][NextSinks]_vars

\* batch lookups of few subjects, of BATCH_LIMIT and of more
BatchLens == {2} \cup {BATCH_LIMIT + k : k \in 0..MaxExcess}
BatchFails == {{}, {1}}
BatchVerdicts == {"Wag", "Bark"}
NextBatch ==
    \E n \in BatchLens, fails \in BatchFails, v \in BatchVerdicts :
        GetBatchWalletReputation("t1", n, fails, v)

SpecBatch == Init /\ [][NextBatch]_vars

\* Keys are only compared for equality, so an unregistered key other than
\* the default stands for every other. The authority adds the least such
\* key, the first registered key, or, to a registry of at most two keys or
\* one short of full, the default key; it removes the last registered key,
\* an unregistered key, or, from a registry of three keys, the second.
Registered == {anchor.state.validators[i] : i \in 0..(anchor.state.validator_count - 1)}
Fresh ==
    LET fresh == (Pubkeys \ {Pubkey_default}) \ Registered
    IN  {k \in fresh : \A o \in fresh : k <= o}
KeysAt(indices) ==
    {anchor.state.validators[i] : i \in indices \cap 0..(anchor.state.validator_count - 1)}
AddedKeys ==
    Fresh \cup KeysAt({0})
    \cup (IF anchor.state.validator_count \in {0, 1, 2, MAX_VALIDATORS - 1}
          THEN {Pubkey_default} ELSE {})
RemovedKeys ==
    Fresh \cup {Pubkey_default} \cup KeysAt({anchor.state.validator_count - 1})
    \cup (IF anchor.state.validator_count = 3 THEN KeysAt({1}) ELSE {})

NextRegistry ==
    \/ \E validator \in AddedKeys : AddValidator(validator)
    \/ \E validator \in RemovedKeys : RemoveValidator(validator)

SpecRegistry == Init /\ [][NextRegistry]_vars

\* The subjects looked up are strings: a plain one, and the one that starts
\* with the prefix of the token keys. The service judges every token Wag and
\* every wallet Bark, so that a score tells which kind of lookup fetched it.
Subjects == {<<"A">>, TOKEN_PREFIX \o <<"A">>}
KindResponses(context) ==
    {Failure("transport"),
     JudgeResponse(100, IF context = "token" THEN "Wag" ELSE "Bark", 0, None)}

\* tasks looking wallets and tokens up on the client
NextCacheKeys ==
    \/ \E t \in Tasks, address \in Subjects : GetWalletReputation(t, address)
    \/ \E t \in Tasks, mint \in Subjects : GetTokenReputation(t, mint)
    \/ \E t \in Tasks : GetCachedLock(t)
    \/ \E t \in Tasks : GetCachedRead(t)
    \/ \E t \in Tasks : \E resp \in KindResponses(local[t].context) : QueryReputation(t, resp)
    \/ \E t \in Tasks : CacheScoreLock(t)
    \/ \E t \in Tasks : CacheScoreWrite(t)

SpecCacheKeys == Init /\ [][NextCacheKeys]_vars

\* A cache that lookups have filled to one entry below the pruning length,
\* or to the pruning length itself; the scores cached next are for the first
\* subject, for the subject that fills the cache to the pruning length and
\* for the one after it.
FilledCache(n) == [k \in 1..n |-> CacheEntry(ReputationScore_default, 0)]
FilledCaches == {FilledCache(n) : n \in {CACHE_PRUNE_LEN - 1, CACHE_PRUNE_LEN}}
SweepKeys == {1, CACHE_PRUNE_LEN, CACHE_PRUNE_LEN + 1}
SweepScores == {ReputationScore_default, ReputationScore(100, "Wag", None, 0)}

InitSweep ==
    /\ queue = Empty
    /\ transactions = Empty
    /\ stats = QueueStats_default
    /\ now = 0
    /\ call = Call("new", "-", NoTx, "-", 0, "()", <<>>)
    /\ config = SchedulerConfig_default
    /\ state = "Stopped"
    /\ running = FALSE
    /\ sched_stats = SchedulerStats_default
    /\ pc = [t \in Tasks |-> "idle"]
    /\ local = [t \in Tasks |-> NoLocals]
    /\ cache \in FilledCaches
    /\ guards = [t \in Tasks |-> {}]
    /\ delivered = [s \in Sigs |-> 0]
    /\ progress = [current_slot |-> 0, is_leader |-> FALSE]
    /\ anchor = NoAnchor

NextSweep == \E key \in SweepKeys, score \in SweepScores : CacheScore(key, score)

SpecSweep == InitSweep /\ [][NextSweep]_vars

\* one task admitting transactions while both take batches and read the
\* statistics
NextStats ==
    \/ \E sig \in OfferedSigs, fee \in Fees : ProcessTransaction("t1", sig, fee)
    \/ \E r \in SinkLookups : GetReputation("t1", r)
    \/ Admit("t1")
    \/ \E t \in Tasks, n \in SinkBatchSizes : GetBatch(t, n)
    \/ \E t \in Tasks : GetBatchStats(t)
    \/ \E t \in Tasks : StatsClone(t)
    \/ \E t \in Tasks : StatsQueue(t)
    \/ \E t \in Tasks : StatsCache(t)

SpecStats == Init /\ [][NextStats]_vars

\* both tasks recording progress, of slots after the first; a leader slot
\* is an odd one, so that the two arguments of a call tell which call they
\* are of
ProgressArgs == {<<slot, slot % 2 = 1>> : slot \in 1..(MaxSlot + 2)}
NextProgress ==
    \E t \in Tasks :
        \/ \E a \in ProgressArgs : UpdateProgress(t, a[1], a[2])
        \/ UpdateProgressStats(t)

SpecProgress == Init /\ [][NextProgress]_vars

\* E-Score updates of one account from the first slot of the cluster on, by
\* a key that the authority registers as a validator and by one that it
\* does not
Reporters == {1, 2}
Deltas == {0 - 1, ESCORE_MAX}
ContributionTypes == {0, ESCORE_TYPE_FEEDBACK, ESCORE_TYPE_FEEDBACK + 1}
EScoreSlotSteps == {ESCORE_UPDATE_COOLDOWN - 1, ESCORE_UPDATE_COOLDOWN}
InitEScore ==
    /\ queue = Empty
    /\ transactions = Empty
    /\ stats = QueueStats_default
    /\ now = 0
    /\ call = Call("new", "-", NoTx, "-", 0, "()", <<>>)
    /\ config = SchedulerConfig_default
    /\ state = "Stopped"
    /\ running = FALSE
    /\ sched_stats = SchedulerStats_default
    /\ pc = [t \in Tasks |-> "idle"]
    /\ local = [t \in Tasks |-> NoLocals]
    /\ cache = Empty
    /\ guards = [t \in Tasks |-> {}]
    /\ delivered = [s \in Sigs |-> 0]
    /\ progress = [current_slot |-> 0, is_leader |-> FALSE]
    /\ anchor = [NoAnchor EXCEPT !.slot = 0]

NextEScore ==
    \/ AddValidator(1)
    \/ \E reporter \in Reporters, delta \in Deltas, contribution_type \in ContributionTypes :
           UpdateEScore(reporter, delta, contribution_type)
    \/ \E slots \in EScoreSlotSteps : EScoreSlot(slots)

SpecEScore == InitEScore /\ [][NextEScore]_vars

\* Two tasks call get_batch_wallet_reputation on one client, the first for
\* more subjects than BATCH_LIMIT, the second for few; the service fails for
\* no subject or for the first. The clock is read anew by the calls of the
\* first task.
InFlightLens == [t1 |-> {BATCH_LIMIT + MaxExcess}, t2 |-> {2}]
InFlightFails == {0, 1}
NextInFlight ==
    \E t \in Tasks :
        \/ \E n \in InFlightLens[t], fail \in InFlightFails,
                 t1 \in IF t = "t1" THEN InstantNow(now) ELSE {now} :
               BatchSend(t, n, fail, "Wag", t1)
        \/ BatchAnswer(t)
        \/ BatchReturn(t)

SpecInFlight == Init /\ [][NextInFlight]_vars

\* The validator stakes one lamport less than the minimum or the minimum;
\* the authority slashes for the last valid reason or the first invalid
\* one; the clock advances by one slot, up to MaxDrift slots past a
\* multiple of the cooldown, or by one slot less than the cooldown.
StakeAmounts == {MIN_VALIDATOR_STAKE - 1, MIN_VALIDATOR_STAKE}
SlashReasons == {BURN_REASON_SLASHING, BURN_REASON_SLASHING + 1}
SlotSteps ==
    {UNSTAKE_COOLDOWN - 1}
    \cup (IF anchor.slot % UNSTAKE_COOLDOWN <= MaxDrift THEN {1} ELSE {})

NextStake ==
    \/ \E amount \in StakeAmounts : StakeValidator(amount)
    \/ RequestUnstake
    \/ CompleteUnstake
    \/ \E reason \in SlashReasons : SlashValidator(reason)
    \/ \E slots \in SlotSteps : AdvanceSlot(slots)

SpecStake == Init /\ [][NextStake]_vars

\* ================================================================= claims
\* Helpers of the claims' statements.
Min(a, b) == IF a < b THEN a ELSE b

\* the residents of the least priority
MinKeys(q) == {s \in DOMAIN q : \A o \in DOMAIN q : cmp(q[s], q[o]) # "Greater"}

\* the priority the enqueue call c computes at the clock's last reading
NewPriority(c) == TransactionPriority_new(c.tx.priority_fee, c.verdict, now)

\* priority a does not strictly exceed priority b
NotAbove(a, b) == cmp(a, b) # "Greater"

\* the step is an enqueue call made on a queue holding max_size residents
EnqueueAtCapacity == call'.op = "enqueue" /\ len(queue) = max_size

\* C1: after any sequence of enqueue, dequeue, dequeue_batch and clear calls
\* the key set of the ranking equals the key set of the record map.
C1_KeySetsEqual == DOMAIN queue = DOMAIN transactions

\* C2: an enqueue on a full queue of a non-Reject transaction (of a signature
\* not resident) whose priority strictly exceeds that of the minimum-priority
\* resident evicts exactly that resident, inserts the new transaction and
\* leaves the size at max_size.
C2_EvictsMinimum ==
    [][(/\ EnqueueAtCapacity
        /\ call'.verdict # "Growl"
        /\ call'.tx.signature \notin DOMAIN queue
        /\ \E m \in MinKeys(queue) : cmp(NewPriority(call'), queue[m]) = "Greater")
       => (/\ call'.ret = "Ok(true)"
           /\ len(queue') = max_size
           /\ call'.tx.signature \in DOMAIN queue'
           /\ \E m \in MinKeys(queue) :
                  DOMAIN queue' = (DOMAIN queue \ {m}) \cup {call'.tx.signature})]_vars

\* C3 as stated: an enqueue on a full queue of a transaction whose priority
\* does not strictly exceed that of the minimum-priority resident returns the
\* capacity error and leaves ranking, record map and counters as they were.
C3_RejectsLowAsStated ==
    [][(/\ EnqueueAtCapacity
        /\ \E m \in MinKeys(queue) : NotAbove(NewPriority(call'), queue[m]))
       => (call'.ret = "Err" /\ UNCHANGED <<queue, transactions, stats>>)]_vars

\* C3 amended: the same for a transaction whose verdict is not Reject (a
\* Reject verdict is dropped before the capacity check).
C3_RejectsLow ==
    [][(/\ EnqueueAtCapacity
        /\ call'.verdict # "Growl"
        /\ \E m \in MinKeys(queue) : NotAbove(NewPriority(call'), queue[m]))
       => (call'.ret = "Err" /\ UNCHANGED <<queue, transactions, stats>>)]_vars

C3_Witness ==
    /\ call.op = "enqueue" /\ call.ret = "Err" /\ call.verdict # "Growl"
    /\ len(queue) = max_size
    /\ \E m \in MinKeys(queue) : NotAbove(NewPriority(call), queue[m])

C5_DequeueMax ==
    [][call'.op = "dequeue" =>
         IF DOMAIN queue = {}
         THEN call'.ret = "None" /\ DOMAIN queue' = {}
         ELSE /\ call'.ret = "Some"
              /\ LET sig == call'.batch[1].signature
                 IN  /\ sig \in DOMAIN queue
                     /\ call'.batch[1] = transactions[sig]
                     /\ queue' = without(queue, sig)
                     /\ \A o \in DOMAIN queue :
                            \/ queue[sig].phi_score > queue[o].phi_score
                            \/ /\ queue[sig].phi_score = queue[o].phi_score
                               /\ queue[sig].timestamp <= queue[o].timestamp]_vars

\* a dequeue returned a transaction while a resident of the same weighted
\* score, with a later timestamp than the clock's first reading, stayed
C5_Witness ==
    /\ call.op = "dequeue" /\ call.ret = "Some"
    /\ call.batch[1].priority_fee > 0
    /\ \E o \in DOMAIN queue :
           /\ queue[o].phi_score =
                  call.batch[1].priority_fee * multiplier(call.batch[1].reputation)
           /\ queue[o].timestamp > 0

\* C6: dequeue_batch(k) on n residents returns min(k, n) transactions in
\* non-increasing priority order, each of priority at least that of every
\* resident left behind, and leaves n - min(k, n) residents.
C6_BatchExtraction ==
    [][call'.op = "dequeue_batch" =>
         LET n == len(queue)
             k == call'.n
             b == call'.batch
         IN  /\ Len(b) = Min(k, n)
             /\ len(queue') = n - Min(k, n)
             /\ \A i \in 1..Len(b) : b[i].signature \in DOMAIN queue \ DOMAIN queue'
             /\ \A i, j \in 1..Len(b) :
                    i < j => cmp(queue[b[i].signature], queue[b[j].signature]) # "Less"
             /\ \A i \in 1..Len(b) : \A o \in DOMAIN queue' :
                    /\ o \in DOMAIN queue
                    /\ cmp(queue[b[i].signature], queue[o]) # "Less"]_vars

\* a batch of two of different weighted scores was taken by a call that
\* asked for more
C6_Witness ==
    /\ call.op = "dequeue_batch"
    /\ Len(call.batch) = 2
    /\ call.n > 2
    /\ call.batch[1].priority_fee > 0
    /\ call.batch[1].priority_fee = call.batch[2].priority_fee
    /\ call.batch[1].reputation # call.batch[2].reputation

\* C7: no transaction of verdict Reject is ever resident; an enqueue of one
\* returns Ok(false), leaves ranking and record map as they were and adds
\* exactly one to the dropped counter.
C7_GrowlDropped ==
    /\ [](\A s \in DOMAIN transactions : transactions[s].reputation # "Growl")
    /\ [][(call'.op = "enqueue" /\ call'.verdict = "Growl") =>
            /\ call'.ret = "Ok(false)"
            /\ UNCHANGED <<queue, transactions>>
            /\ stats' = [stats EXCEPT !.total_dropped = @ + 1]]_vars

\* a Reject transaction was dropped at a non-empty queue
C7_Witness ==
    /\ call.op = "enqueue" /\ call.verdict = "Growl" /\ call.ret = "Ok(false)"
    /\ len(queue) > 0
    /\ stats.total_dropped = 1

\* the lifecycle's transitions
LifecycleEdges ==
    {<<"Stopped", "Starting">>, <<"Starting", "Running">>, <<"Running", "Stopping">>,
     <<"Stopping", "Stopped">>}

\* the step is the first one of a call of op
Calls(op) == call'.op = op /\ pc[call'.task] = "idle"

\* C8: under any interleaving of start and stop calls the lifecycle state
\* changes only along Stopped -> Starting -> Running -> Stopping -> Stopped.
C8_LinearLifecycle == [][state' # state => <<state, state'>> \in LifecycleEdges]_vars

\* a start was refused while another task stood in the middle of a stop
C8_Witness ==
    /\ state = "Stopping"
    /\ \E t \in Tasks : pc[t] = "stop_store"
    /\ call.op = "start" /\ call.ret = "Err"

\* C9: a start called while the state is Starting, Running or Stopping
\* returns the error and changes neither the lifecycle state nor the running
\* flag.
C9_StartRefused ==
    [][(Calls("start") /\ state # "Stopped")
        => (/\ call'.ret = "Err"
            /\ pc'[call'.task] = "idle"
            /\ UNCHANGED <<state, running>>)]_vars

\* a second start after a start that succeeded was refused; the state is
\* Running
C9_Witness ==
    /\ call.op = "start" /\ call.ret = "Err"
    /\ state = "Running" /\ running
    /\ \A t \in Tasks : pc[t] = "idle"

\* C10: a stop called while the state is Stopped, Starting or Stopping
\* returns success and leaves the lifecycle state, the running flag, the queue
\* and all statistics as they were.
C10_StopIdempotent ==
    [][(Calls("stop") /\ state # "Running")
        => (/\ call'.ret = "Ok"
            /\ pc'[call'.task] = "idle"
            /\ UNCHANGED <<state, running, queue, transactions, stats, sched_stats>>)]_vars

\* a stop returned at once while another task stood in the middle of a start
\* and the queue held a transaction
C10_Witness ==
    /\ call.op = "stop" /\ call.ret = "Ok"
    /\ state = "Starting"
    /\ len(queue) > 0

\* C11: in every reachable state, under any interleaving of start and stop,
\* state Running implies the running flag is set and state Stopped implies it
\* is clear; a start that succeeds returns with state Running, and a stop
\* that ran to its end returns with state Stopped and the flag clear.
C11_RunningConsistent ==
    /\ []((state = "Running" => running) /\ (state = "Stopped" => ~running))
    /\ [][(call'.op = "start" /\ call'.ret = "Ok") => (state' = "Running" /\ running')]_vars
    /\ [][(call'.op = "stop" /\ call'.ret = "Ok" /\ pc[call'.task] = "stop_stopped")
            => (state' = "Stopped" /\ ~running')]_vars

\* a stop that followed a successful start has cleared the flag and is about
\* to set the state to Stopped, while the other task is refused a start
C11_Witness ==
    /\ state = "Stopping" /\ ~running
    /\ \E t \in Tasks : pc[t] = "stop_stopped" /\ call.task # t
    /\ call.op = "start" /\ call.ret = "Err"

\* the step is one of get_wallet_reputation, and returns
LookupReturns == call'.op = "get_wallet_reputation" /\ call'.ret # "-"

\* the step is the cache read of a lookup by task t
CacheRead(t) == call'.op = "get_wallet_reputation" /\ call'.task = t /\ pc[t] = "gc_read"

\* the age of the entry of key in cache c at clock reading t
Age(c, key, t) == t - c[key].cached_at

\* C12: get_wallet_reputation never returns an error to its caller, whatever
\* the remote call resolves with.
C12_LookupNeverFails == [][LookupReturns => call'.ret = "Ok"]_vars

\* C14: a lookup of a subject whose entry is younger than the TTL returns the
\* cached score and makes no remote call; a lookup of a subject whose entry
\* has reached the TTL makes exactly one remote call and returns with the
\* entry refreshed.
C14_CacheTtl ==
    /\ [][\A t \in Tasks :
            (/\ CacheRead(t)
             /\ local[t].key \in DOMAIN cache
             /\ Age(cache, local[t].key, now') < cache_ttl)
            => (/\ call'.ret = "Ok"
                /\ call'.batch = <<cache[local[t].key].score>>
                /\ call'.n = 0
                /\ cache' = cache)]_vars
    /\ [][\A t \in Tasks :
            (/\ CacheRead(t)
             /\ local[t].key \in DOMAIN cache
             /\ Age(cache, local[t].key, now') >= cache_ttl)
            => (call'.ret = "-" /\ pc'[t] = "qr_send")]_vars
    /\ [][(/\ LookupReturns
           /\ call'.key \in DOMAIN cache
           /\ Age(cache, call'.key, now) >= cache_ttl)
          => (/\ call'.n = 1
              /\ Age(cache', call'.key, now') < cache_ttl)]_vars

\* C15: every score the client returns, fetched, cached or default, and every
\* score it caches has a confidence of at most phi^-1 x 100.
C15_ConfidenceCapped ==
    /\ [](\A k \in DOMAIN cache : cache[k].score.confidence <= PHI_INV * 100)
    /\ [][(LookupReturns /\ call'.ret = "Ok")
          => call'.batch[1].confidence <= PHI_INV * 100]_vars

\* a lookup was served from the cache with a judged score whose confidence is
\* the cap (the service answers no confidence equal to the cap)
C15_Witness ==
    /\ call.op = "get_wallet_reputation" /\ call.ret = "Ok" /\ call.n = 0
    /\ call.batch[1].q_score \in QScores
    /\ call.batch[1].confidence = PHI_INV * 100

\* the step is one of process_transaction, and returns
PtReturns == call'.op = "process_transaction" /\ call'.ret # "-"

\* the remote call of the lookup that task t made failed: in transport or by
\* timeout, with a non-success status, or with a body that does not parse
LookupFailed(l) == l.resp \in {"transport", "status", "body"}

\* C13: a process_transaction whose lookup failed goes on with the default
\* score: it returns accepted, the transaction resident with the weighted
\* score fee x 1.0, or the queue's capacity error from a full queue; it is
\* never filtered and no lookup error reaches its caller.
C13_FailedLookupAdmits ==
    /\ [][\A t \in Tasks :
            (pc'[t] = "pt_filter" /\ pc[t] # "pt_filter" /\ LookupFailed(local'[t]))
            => local'[t].reputation = ReputationScore_default]_vars
    /\ [][(PtReturns /\ LookupFailed(local[call'.task]))
          => LET tx == local[call'.task].tx
             IN  \/ /\ call'.ret = "Ok(true)"
                    /\ tx.signature \in DOMAIN queue'
                    /\ queue'[tx.signature].phi_score = tx.priority_fee * ONE
                 \/ /\ call'.ret = "Err"
                    /\ len(queue) = max_size
                    /\ UNCHANGED <<queue, transactions, stats>>]_vars

\* a transaction was accepted with the weighted score fee x 1.0 by the one
\* process_transaction made so far, whose lookup returned an error (no
\* successful lookup was counted)
C13_Witness ==
    /\ call.op = "process_transaction" /\ call.ret = "Ok(true)"
    /\ sched_stats.tpu_received = 1 /\ sched_stats.cynic_api_calls = 0
    /\ call.tx.signature \in DOMAIN queue
    /\ queue[call.tx.signature].phi_score = call.tx.priority_fee * ONE

\* what the claims of process_transaction read of a returning call
Rep(c) == local[c.task].reputation
Policy(c) == filtered(config, Rep(c)) \/ Rep(c).verdict = "Growl"
Insufficient(c) ==
    /\ len(queue) = max_size
    /\ \E m \in MinKeys(queue) :
           NotAbove(TransactionPriority_new(local[c.task].tx.priority_fee, Rep(c).verdict, now),
                    queue[m])

\* C16: process_transaction returns accepted exactly when the call inserted
\* the transaction, filtered exactly when policy (verdict Reject or the score
\* floor) kept it out, rejected exactly when (policy passed and) the queue was
\* at capacity and the priority did not exceed the minimum resident's; ranking
\* and record map are unchanged when it is filtered or rejected.
C16_TriState ==
    [][PtReturns =>
         LET tx == local[call'.task].tx
         IN  /\ call'.ret \in {"Ok(true)", "Ok(false)", "Err"}
             /\ (call'.ret = "Ok(true)")
                  <=> (/\ tx.signature \in DOMAIN queue'
                       /\ transactions'[tx.signature] = tx
                       /\ stats'.total_enqueued = stats.total_enqueued + 1)
             /\ (call'.ret = "Ok(false)") <=> Policy(call')
             /\ (call'.ret = "Err") <=> (~Policy(call') /\ Insufficient(call'))
             /\ call'.ret # "Ok(true)" => UNCHANGED <<queue, transactions>>]_vars

\* C17: with the GROWL filter enabled, a process_transaction whose resolved
\* verdict is Reject returns filtered from the filter itself: it never holds
\* the queue's guard, and ranking, record map and the queue's counters (the
\* dropped counter of enqueue among them) are as before.
C17_GrowlFilteredFirst ==
    /\ [](\A t \in Tasks :
            (config.enable_growl_filter /\ pc[t] = "enq_locked")
            => local[t].reputation.verdict # "Growl")
    /\ [][(/\ PtReturns
           /\ config.enable_growl_filter
           /\ Rep(call').verdict = "Growl")
          => (/\ call'.ret = "Ok(false)"
              /\ pc[call'.task] = "pt_filter"
              /\ UNCHANGED <<queue, transactions, stats>>)]_vars

\* a transaction of a Reject payer was filtered and the queue dropped nothing
C17_Witness ==
    /\ call.op = "process_transaction" /\ call.ret = "Ok(false)"
    /\ call.verdict = "Growl"
    /\ config.enable_growl_filter
    /\ stats.total_dropped = 0

\* C18: a transaction that passed the GROWL filter is filtered on the
\* minimum-score floor if and only if the floor is greater than 0 and the
\* reputation carries an E-Score below the floor.
C18_FloorFilter ==
    [][\A t \in Tasks :
         (/\ call'.op = "process_transaction" /\ call'.task = t
          /\ pc[t] = "pt_filter"
          /\ ~(config.enable_growl_filter /\ should_drop(local[t].reputation.verdict)))
         => ((call'.ret = "Ok(false)")
               <=> (/\ config.min_e_score > 0
                    /\ local[t].reputation.e_score # None
                    /\ local[t].reputation.e_score[1] < config.min_e_score))]_vars

\* C20: a task whose remote call is in flight holds no guard of the queue,
\* the cache or the statistics; and while a task is suspended there, every
\* step of a get_batch of another task is enabled: taking the queue's guard,
\* the dequeue_batch, taking the statistics' guard, the return.
C20_NoGuardAcrossRemoteCall ==
    \A t \in Tasks :
        pc[t] = "qr_send"
        => /\ guards[t] = {}
           /\ \A u \in Tasks \ {t} :
                  /\ pc[u] = "idle" => \A n \in AdmissionBatchSizes : ENABLED GbQueueLock(u, n)
                  /\ pc[u] = "gb_queue" => ENABLED GbQueueUnlock(u)
                  /\ pc[u] = "gb_stats_lock" => ENABLED GbStatsLock(u)
                  /\ pc[u] = "gb_stats_locked" => ENABLED GbStatsUnlock(u)

\* while the remote call of one task is in flight, the other task has just
\* taken the queue's guard for a get_batch
C20_Witness ==
    \E t \in Tasks :
        /\ pc[t] = "qr_send"
        /\ call.op = "get_batch" /\ call.task # t
        /\ pc[call.task] = "gb_queue"
        /\ Guard("queue", "write") \in guards[call.task]

\* the task is inside a call of the queue, between its lock and its return
InQueueCall(t) == pc[t] \in {"q_enq", "q_deq", "q_deq_remove", "q_batch", "q_clear"}

\* the task has popped from the ranking and not yet finished its call: what
\* it has changed so far is part of an update
MidUpdate(t) ==
    \/ pc[t] = "q_deq_remove"
    \/ pc[t] = "q_batch" /\ local[t].i > 0

\* C19: with the tasks calling enqueue, dequeue, dequeue_batch and clear in
\* any interleaving, a task is inside a queue call exactly while it holds the
\* queue's guard and no two tasks are inside one at once, so that no call
\* starts or runs while another has updated the ranking and the record map in
\* part; and no transaction is returned by more than one extraction call
\* after it has been inserted.
C19_AtomicDeliveredOnce ==
    /\ \A t \in Tasks : InQueueCall(t) <=> QueueGuard \in guards[t]
    /\ \A t, u \in Tasks : t # u /\ InQueueCall(t) => ~InQueueCall(u)
    /\ \A t, u \in Tasks : t # u /\ MidUpdate(t) => pc[u] = "idle"
    /\ \A s \in Sigs : delivered[s] <= 1

\* C19 witness: a dequeue_batch has taken one transaction and the ranking
\* still holds another, the other task having had a transaction from dequeue
\* before: the call is part-way and the other task can only wait
C19_Witness ==
    \E t \in Tasks, s \in Sigs :
        /\ pc[t] = "q_batch"
        /\ Len(local[t].batch) = 1
        /\ local[t].i < local[t].n
        /\ queue # Empty
        /\ delivered[s] = 1
        /\ local[t].batch[1].signature # s
        /\ call.task = t
        /\ \A u \in Tasks \ {t} : ~ENABLED QDequeueLock(u)

\* the task is inside process_transaction
InAdmission(t) ==
    pc[t] \in {"pt_stats", "gc_lock", "gc_read", "qr_send", "cs_lock", "cs_write",
               "gr_match", "gr_stats", "pt_filter", "enq_locked"}

\* C21: under fair scheduling and fair lock acquisition, with every remote
\* call resolving, a task inside process_transaction eventually returns, and
\* it returns accepted (Ok(true)), filtered (Ok(false)) or rejected (Err);
\* in no reachable state with a call in progress are all the tasks inside a
\* call unable to take their next step (no deadlock among the queue lock,
\* the cache lock and the statistics lock).
C21_AdmissionReturns ==
    /\ \A t \in Tasks : InAdmission(t) ~> (pc[t] = "idle")
    /\ [][\A t \in Tasks :
              InAdmission(t) /\ pc'[t] = "idle"
              => call'.ret \in {"Ok(true)", "Ok(false)", "Err"}]_vars
    /\ []((\E t \in Tasks : pc[t] # "idle") => \E u \in Tasks : ENABLED Continue(u))

\* C21 witness: an admission has its score and waits for the statistics
\* lock while the other task, inside its own admission, holds it
C21_Witness ==
    \E t, u \in Tasks :
        /\ t # u
        /\ InAdmission(u)
        /\ pc[t] = "gr_match"
        /\ local[t].result.ok
        /\ Guard("stats", "write") \in guards[u]
        /\ ~ENABLED GrStatsLock(t)

\* the number lies in the open interval (0, 1); NaN lies in no interval
InOpenUnit(x) == ~x.nan /\ 0 < x.v /\ x.v < ONE

\* C22: CynicScheduler::new, through validate, fails if and only if
\* max_queue_size = 0, batch_size = 0, num_workers = 0, wag_multiplier <= 0
\* or bark_multiplier is outside the open interval (0, 1); when it fails no
\* scheduler is constructed.
C22_ValidateRejects ==
    [][SchedulerNew =>
         /\ call'.ret = "Err"
            <=> \/ config.max_queue_size = 0
                \/ config.batch_size = 0
                \/ config.num_workers = 0
                \/ f64_le(config.wag_multiplier, F64(0))
                \/ ~InOpenUnit(config.bark_multiplier)
         /\ call'.ret = "Err" => state' = "-"
         /\ call'.ret = "Ok" => state' = "Stopped"]_vars

\* the place of a verdict: Wag above Howl above Bark above Growl
Rank(v) == CASE v = "Wag" -> 3 [] v = "Howl" -> 2 [] v = "Bark" -> 1 [] v = "Growl" -> 0

\* C23: the multipliers are strictly ordered Wag > Howl > Bark > Growl = 0,
\* and of two priorities computed from one non-zero base fee the one of the
\* higher verdict compares Greater, whatever their timestamps; the priority
\* of Growl has score zero.
C23_MultipliersOrdered ==
    /\ multiplier("Wag") > multiplier("Howl")
    /\ multiplier("Howl") > multiplier("Bark")
    /\ multiplier("Bark") > multiplier("Growl")
    /\ multiplier("Growl") = 0
    /\ call.op = "cmp" /\ local["t1"].tx.priority_fee # 0
       => /\ Rank(local["t1"].tx.reputation) > Rank(local["t2"].tx.reputation)
             => call.ret = "Greater"
          /\ Rank(local["t1"].tx.reputation) < Rank(local["t2"].tx.reputation)
             => call.ret = "Less"
          /\ local["t1"].tx.reputation = "Growl" => call.batch[1].phi_score = 0

\* C23 witness: a Bark priority compared Greater than a Growl priority of
\* the same non-zero fee although the Growl priority is the earlier one
C23_Witness ==
    /\ call.op = "cmp"
    /\ call.ret = "Greater"
    /\ local["t1"].tx.reputation = "Bark"
    /\ local["t2"].tx.reputation = "Growl"
    /\ local["t1"].tx.priority_fee # 0
    /\ call.batch[1].timestamp > call.batch[2].timestamp

\* the step belongs to update_progress or record_result
SinkStep == call'.op \in {"update_progress", "record_result"}

\* what the enqueue of process_transaction can return and leave, read from
\* the configuration, the looked-up score, the queue and the clock alone
AdmitOutcomes(t) ==
    IF filtered(config, local[t].reputation)
    THEN {Outcome(queue, transactions, stats, now, "Ok(false)", <<>>)}
    ELSE enqueue(queue, transactions, stats, now, local[t].tx, local[t].reputation.verdict)

\* C24: a step of update_progress or record_result leaves the queue's
\* contents and statistics, the cache, the lifecycle state and the running
\* flag as they were; and whatever slot, leader flag and results have been
\* recorded, process_transaction returns and leaves what the configuration,
\* the looked-up score, the queue and the clock determine, and get_batch
\* returns what dequeue_batch gives from the queue.
C24_SinksOnly ==
    [][/\ SinkStep => UNCHANGED <<queue, transactions, stats, cache, state, running, config>>
       /\ \A t \in Tasks :
              pc[t] = "pt_admit" /\ pc'[t] = "idle"
              => \E o \in AdmitOutcomes(t) :
                     /\ call'.ret = o.ret
                     /\ <<queue', transactions', stats', now'>>
                        = <<o.queue, o.transactions, o.stats, o.now>>
       /\ \A t \in Tasks :
              pc[t] = "idle" /\ pc'[t] = "gb_stats"
              => \E o \in dequeue_batch(queue, transactions, stats, now, call'.n) :
                     /\ call'.batch = o.batch
                     /\ <<queue', transactions', stats'>>
                        = <<o.queue, o.transactions, o.stats>>]_vars

\* C24 witness: a transaction has just been accepted although the recorded
\* leader flag is false, a slot is recorded and a failed result is counted
C24_Witness ==
    /\ call.op = "process_transaction"
    /\ call.ret = "Ok(true)"
    /\ ~progress.is_leader
    /\ ~sched_stats.is_leader
    /\ progress.current_slot # 0
    /\ sched_stats.current_slot = progress.current_slot
    /\ sched_stats.failed > 0

\* the score the cache holds for subject a and would return at clock reading t
Cached(a, t) == get_cached(cache, a, t)

\* C25: get_batch_wallet_reputation for the subjects 1..n returns a map with
\* an entry for each of them, whatever n: the cached score for a subject the
\* cache answers, the default score for an uncached subject whose lookup
\* fails, the judged score for the others.
C25_BatchComplete ==
    [][call'.op = "get_batch_wallet_reputation"
       => /\ DOMAIN call'.batch = 1..call'.n
          /\ \A a \in DOMAIN call'.batch :
                 \E t \in InstantNow(now) :
                     call'.batch[a] =
                         IF Cached(a, t) # None THEN Cached(a, t)[1]
                         ELSE IF a \in call'.key THEN ReputationScore_default
                         ELSE ReputationScore(100, call'.verdict, None, PHI_INV * 100)]_vars

\* the registered keys of a CynicState, in the order of their slots
RegistrySeq(st) == [i \in 1..st.validator_count |-> st.validators[i - 1]]

\* C26: validator_count never exceeds MAX_VALIDATORS, the first
\* validator_count slots hold pairwise distinct keys and the slots from
\* validator_count on hold the default key; add_validator fails with
\* TooManyValidators on a full registry and with AlreadyValidator for a
\* registered key, remove_validator fails with NotValidator for a key that
\* is not registered, each leaving the registry as it was; a remove_validator
\* that succeeds takes out the named key and keeps the order of the others.
C26_RegistryWellFormed ==
    /\ [](/\ anchor.state.validator_count <= MAX_VALIDATORS
          /\ \A i, j \in 0..(anchor.state.validator_count - 1) :
                 i # j => anchor.state.validators[i] # anchor.state.validators[j]
          /\ \A i \in anchor.state.validator_count..(MAX_VALIDATORS - 1) :
                 anchor.state.validators[i] = Pubkey_default)
    /\ [][/\ call'.op = "add_validator"
             => /\ anchor.state.validator_count = MAX_VALIDATORS
                   => call'.ret = "TooManyValidators"
                /\ anchor.state.validator_count < MAX_VALIDATORS /\ call'.n \in Registered
                   => call'.ret = "AlreadyValidator"
                /\ call'.ret # "Ok" => anchor'.state = anchor.state
          /\ call'.op = "remove_validator"
             => /\ call'.n \notin Registered
                   => call'.ret = "NotValidator" /\ anchor'.state = anchor.state
                /\ call'.n \in Registered
                   => /\ call'.ret = "Ok"
                      /\ RegistrySeq(anchor'.state)
                         = SelectSeq(RegistrySeq(anchor.state), LAMBDA k : k # call'.n)]_vars

\* C26 witness: the second of three registered keys has just been removed,
\* the first and the third are left in their order
C26_Witness ==
    /\ call.op = "remove_validator"
    /\ call.ret = "Ok"
    /\ anchor.state.validator_count = 2
    /\ anchor.state.validators[0] < call.n
    /\ call.n < anchor.state.validators[1]

BatchRest(t) ==
    pop_loop(queue, transactions, local[t].batch, local[t].n - local[t].i)

\* C28: from every state of the queue in which a call can take the lock and
\* for every n, dequeue_batch(n) returns and leaves what n consecutive
\* dequeue calls return and leave (the same transactions in the same order,
\* the same ranking, record map, total_dequeued and current_size); a
\* dequeue_batch call running among
\* concurrent calls ends with an outcome of dequeue_batch on the queue as it
\* was when the call took the lock, and from its first pop to its return no
\* other task takes a step.
C28_BatchIsDequeues ==
    /\ []((\A t \in Tasks : QueueGuard \notin guards[t])
          => \A n \in BatchSizes :
                 dequeue_batch(queue, transactions, stats, now, n)
                 = dequeue_calls(queue, transactions, stats, now, <<>>, n))
    /\ [][\A t \in Tasks :
              /\ pc[t] = "idle" /\ pc'[t] = "q_batch"
                 => /\ UNCHANGED queueVars
                    /\ BatchRest(t)' = pop_loop(queue, transactions, <<>>, call'.n)
              /\ pc[t] = "q_batch" /\ pc'[t] = "q_batch"
                 => /\ BatchRest(t)' \subseteq BatchRest(t)
                    /\ UNCHANGED <<stats, now>>
                    /\ local'[t].n = local[t].n
              /\ pc[t] = "q_batch" /\ pc'[t] = "idle"
                 => /\ [queue |-> queue', transactions |-> transactions',
                        batch |-> call'.batch] \in BatchRest(t)
                    /\ stats' = [stats EXCEPT !.total_dequeued = @ + Len(call'.batch),
                                              !.current_size = len(queue')]
                    /\ now' = now
              /\ pc[t] = "q_batch" => call'.task = t]_vars

\* C28 witness: a dequeue_batch(2) among concurrent calls has returned two
\* transactions, the Wag one before the Howl one, and emptied the queue,
\* while the other task was waiting to enqueue
C28_Witness ==
    /\ call.op = "dequeue_batch"
    /\ call.ret = "Vec"
    /\ call.task = "t2"
    /\ call.n = 2
    /\ Len(call.batch) = 2
    /\ call.batch[1].reputation = "Wag"
    /\ call.batch[2].reputation = "Howl"
    /\ queue = Empty
    /\ stats.total_dequeued = 2
    /\ stats.current_size = 0
    /\ stats.total_enqueued < MaxInserted
    /\ pc["t1"] = "idle"

\* C29: with the GROWL filter disabled by configuration, a transaction whose
\* payer has verdict Growl, not below the minimum E-Score, submitted through
\* process_transaction while the queue has room is accepted: Ok(true), its
\* signature ranked with score 0, total_enqueued one higher and
\* total_dropped as it was.
C29_GrowlKeptWhenFilterOff ==
    [][\A t \in Tasks :
           /\ pc[t] = "enq_locked" /\ pc'[t] = "idle"
           /\ ~config.enable_growl_filter
           /\ local[t].reputation.verdict = "Growl"
           /\ ~at_capacity(queue)
           => /\ call'.ret = "Ok(true)"
              /\ local[t].tx.signature \in DOMAIN queue'
              /\ queue'[local[t].tx.signature].phi_score = 0
              /\ stats'.total_enqueued = stats.total_enqueued + 1
              /\ stats'.total_dropped = stats.total_dropped]_vars

\* C30: the key of a wallet lookup is the key of no token lookup and the key
\* of a token lookup is the key of no wallet lookup, whatever the address
\* and the mint are (equal ones and ones of any text included); a wallet
\* lookup never returns a score that a token lookup fetched, nor a token
\* lookup one that a wallet lookup fetched.
C30_KeysScopedByKind ==
    [][/\ \A t \in Tasks :
              pc[t] = "idle" /\ pc'[t] = "gc_lock"
              => /\ local'[t].context = "wallet"
                    => \A mint \in Subjects : local'[t].key # token_key(mint)
                 /\ local'[t].context = "token"
                    => \A address \in Subjects : local'[t].key # wallet_key(address)
       /\ call'.op = "get_wallet_reputation" /\ call'.ret = "Ok"
          => call'.batch[1].verdict = "Bark"
       /\ call'.op = "get_token_reputation" /\ call'.ret = "Ok"
          => call'.batch[1].verdict = "Wag"]_vars

\* C31: a lookup that missed the cache and made its remote call returns with
\* the cache holding an entry of its subject, younger than the TTL, whose
\* score is the one it returned or, when the remote call failed in transport
\* or by a body that does not parse, the default score that stands in for it.
C31_MissCachesResult ==
    [][(LookupReturns /\ call'.n = 1)
       => /\ call'.key \in DOMAIN cache'
          /\ Age(cache', call'.key, now') < cache_ttl
          /\ cache'[call'.key].score
             = IF call'.ret = "Ok" THEN call'.batch[1] ELSE ReputationScore_default]_vars

\* the entries of cache c with the entry of key put in at clock reading t
Inserted(c, key, t) == with(c, key, CacheEntry(ReputationScore_default, t))

\* the insertion into cache c of an entry of key at clock reading t, followed
\* by the clock reading u, left the cache d: a sweep ran if and only if the
\* insertion took the cache past CACHE_PRUNE_LEN entries, and it removed the
\* entries that had reached the TTL and no other
SweptByAge(c, key, t, u, d) ==
    LET c1 == Inserted(c, key, t)
    IN  IF len(c1) <= CACHE_PRUNE_LEN
        THEN DOMAIN d = DOMAIN c1
        ELSE \A k \in DOMAIN c1 : k \in DOMAIN d <=> u - c1[k].cached_at < cache_ttl

\* C32 as stated: after an insertion the cache holds at most CACHE_PRUNE_LEN
\* entries or no entry of age TTL or more; an entry the insertion removed had
\* reached the TTL, and the entry just inserted is never removed; an
\* insertion that leaves at most CACHE_PRUNE_LEN entries removes none.
C32_SweepKeepsInserted ==
    [][call'.op = "cache_score"
       => /\ SweptByAge(cache, call'.key, call'.n, now', cache')
          /\ call'.key \in DOMAIN cache']_vars

\* C32, amended: as above, but the entry just inserted is kept whenever no
\* sweep runs or less than the TTL has passed between the clock reading of
\* its insertion and the clock reading of the sweep, and is removed by the
\* sweep otherwise.
C32_SweepByAge ==
    [][call'.op = "cache_score"
       => /\ SweptByAge(cache, call'.key, call'.n, now', cache')
          /\ call'.key \in DOMAIN cache'
             => cache'[call'.key].cached_at = call'.n
          /\ now' - call'.n < cache_ttl => call'.key \in DOMAIN cache']_vars

\* C32 witness: the insertion of a new subject took the cache past
\* CACHE_PRUNE_LEN entries and the sweep left that subject alone, every
\* earlier entry having reached the TTL
C32_Witness ==
    /\ call.op = "cache_score"
    /\ call.key = CACHE_PRUNE_LEN + 1
    /\ DOMAIN cache = {call.key}
    /\ now - cache[call.key].cached_at < cache_ttl

\* C33: at most BATCH_LIMIT remote requests of batch lookups are in flight
\* at any moment, whatever the batch sizes, also when several calls of
\* get_batch_wallet_reputation run at the same time.
C33_InFlightLimit ==
    requests_in_flight("t1") + requests_in_flight("t2") <= BATCH_LIMIT

\* the step is the return of stats()
StatsReturns == call'.op = "stats" /\ call'.ret = "SchedulerStats"

\* C34: every result of stats() is a view of one moment; in particular it
\* never shows more transactions enqueued or dropped than received.
C34_StatsConsistent ==
    [][StatsReturns
       => LET r == call'.batch[1]
          IN  /\ r.queue.total_enqueued <= r.tpu_received
              /\ r.queue.total_dropped <= r.tpu_received]_vars

\* the verdict keeps the transaction of task t out of the queue: it is
\* Growl, and the transaction is not turned away for its E-Score before the
\* queue reads the verdict
KeptOutByVerdict(t) ==
    /\ should_drop(local[t].reputation.verdict)
    /\ \/ config.enable_growl_filter
       \/ local[t].reputation.e_score = None
       \/ local[t].reputation.e_score[1] >= config.min_e_score

\* C35: total_dropped counts the transactions that process_transaction kept
\* out of the queue for their verdict, with the GROWL filter enabled or
\* disabled: a call that returns adds one to it when the verdict kept the
\* transaction out, and nothing otherwise.
C35_DroppedCountsRejected ==
    [][\A t \in Tasks :
           pc[t] # "idle" /\ pc'[t] = "idle" /\ call'.op = "process_transaction"
           => stats'.total_dropped
              = stats.total_dropped + IF KeptOutByVerdict(t) THEN 1 ELSE 0]_vars

\* C36: outside the calls of the queue, after any sequence of enqueue
\* (accepted, dropped, rejected or evicting), dequeue, dequeue_batch and
\* clear, the gauge current_size equals len(), the number of entries of the
\* ranking.
C36_GaugeIsLen == stats.current_size = len(queue)

\* an enqueue into the full queue that evicted a resident
C36_Witness ==
    /\ call.op = "enqueue"
    /\ call.ret = "Ok(true)"
    /\ stats.current_size = max_size
    /\ stats.total_enqueued > stats.total_dequeued + max_size

\* the step is the return of an enqueue by task t of a signature that the
\* ranking holds, below capacity, with a verdict that is not dropped
Replaces(t) ==
    /\ pc[t] = "q_enq" /\ pc'[t] = "idle"
    /\ local[t].tx.signature \in DOMAIN queue
    /\ ~at_capacity(queue)
    /\ ~should_drop(local[t].tx.reputation)

\* C37: an enqueue of a resident signature below capacity replaces it in
\* place: the ranking keeps one entry for it, now with the priority of the
\* second enqueue, the record map holds the second record, the size is
\* unchanged; and an extraction returns a signature once and leaves no entry
\* for it behind.
C37_ReplacesInPlace ==
    [][/\ \A t \in Tasks :
              Replaces(t)
              => LET tx == local[t].tx
                 IN  /\ call'.ret = "Ok(true)"
                     /\ DOMAIN queue' = DOMAIN queue
                     /\ queue'[tx.signature]
                        = TransactionPriority_new(tx.priority_fee, tx.reputation, now')
                     /\ transactions'[tx.signature] = tx
                     /\ len(queue') = len(queue)
                     /\ stats'.current_size = stats.current_size
       /\ \A s \in Sigs :
              delivered'[s] > delivered[s]
              => /\ delivered'[s] = 1
                 /\ s \notin DOMAIN queue'
                 /\ s \notin DOMAIN transactions']_vars

\* the second enqueue of a signature, Howl after Wag, with nothing extracted
\* in between: one entry, of the second priority
C37_Witness ==
    /\ call.op = "enqueue" /\ call.ret = "Ok(true)"
    /\ call.tx.reputation = "Howl"
    /\ stats.total_enqueued = 2 /\ stats.total_boosted = 1
    /\ stats.total_dequeued = 0
    /\ len(queue) = 1
    /\ transactions[call.tx.signature] = call.tx

\* C38: get_batch returns what dequeue_batch returns and adds the length of
\* the batch to worker_sent; while no get_batch is in progress worker_sent
\* equals the queue's total_dequeued; every result of stats(), also of a
\* call that runs while get_batch does, has worker_sent <= total_dequeued.
C38_SentIsDequeued ==
    [][/\ \A t \in Tasks :
              /\ pc[t] = "idle" /\ pc'[t] = "gb_stats"
                 => \E o \in dequeue_batch(queue, transactions, stats, now, call'.n) :
                        /\ local'[t].batch = o.batch
                        /\ queue' = o.queue
                        /\ stats' = o.stats
              /\ pc[t] = "gb_stats" /\ pc'[t] = "idle"
                 => /\ call'.batch = local[t].batch
                    /\ sched_stats'.worker_sent
                       = sched_stats.worker_sent + Len(call'.batch)
       /\ (\A t \in Tasks : pc'[t] # "gb_stats")
          => sched_stats'.worker_sent = stats'.total_dequeued
       /\ StatsReturns
          => call'.batch[1].worker_sent <= call'.batch[1].queue.total_dequeued]_vars

\* a result of stats() that shows a batch dequeued and not yet counted as
\* sent
C38_Witness ==
    /\ call.op = "stats" /\ call.ret = "SchedulerStats"
    /\ call.batch[1].worker_sent < call.batch[1].queue.total_dequeued

\* C39: once every call of update_progress has returned, the pair that
\* current_slot() and is_leader() read from the atomics and the pair in the
\* result of stats() are the arguments of one call, and equal each other.
C39_ProgressAgrees ==
    (/\ \A t \in Tasks : pc[t] = "idle"
     /\ call.op = "update_progress")
    => /\ <<progress.current_slot, progress.is_leader>> \in ProgressArgs
       /\ <<sched_stats.current_slot, sched_stats.is_leader>> \in ProgressArgs
       /\ progress.current_slot = sched_stats.current_slot
       /\ progress.is_leader = sched_stats.is_leader

\* C40: two successful update_escore on one entry are at least
\* ESCORE_UPDATE_COOLDOWN slots apart, whatever the slot of the first; an
\* attempt before that fails with EScoreCooldown and leaves the entry as it
\* was.
C40_EScoreCooldown ==
    [][(call'.op = "update_escore" /\ anchor.updated_at >= 0)
       => /\ call'.ret = "Ok"
             => anchor.slot >= anchor.updated_at + ESCORE_UPDATE_COOLDOWN
          /\ (/\ anchor.slot < anchor.updated_at + ESCORE_UPDATE_COOLDOWN
              /\ call'.ret \notin {"NotValidator", "InvalidEScoreType"})
             => /\ call'.ret = "EScoreCooldown"
                /\ anchor'.escore = anchor.escore]_vars

====
